---- MODULE Spec2Model ----
(***************************************************************************)
(* Model of the glue-to-ccsr migration orchestrator: dependency graph      *)
(* construction, level-by-level registration through the worker pool,      *)
(* checkpoint load/save and the dry-run branch.                            *)
(***************************************************************************)
EXTENDS Integers, Sequences, FiniteSets, TLC

(***************************************************************************)
(* Bounds of the model.                                                    *)
(***************************************************************************)
\* total number of reference tokens carried by the extracted schemas
MaxRefs == 2
\* number of versions every source schema has
MaxVersions == 2
\* cfg.Concurrency.Workers of the modelled run
Workers == 2
\* cfg.Concurrency.RetryAttempts of the modelled run
RetryAttempts == 1
\* number of adverse events of one run: failures of the source, the target
\* or the disk, and fan-outs whose select takes a closed channel
MaxFaults == 1
\* number of items (schema names, version numbers) one fan-out requests
MaxItems == 3
\* size of the largest group of schemas that map to one subject
MaxGroup == 11
\* number of requests one caller of a rate limiter makes in a row
MaxOps == 2
\* number of references one mapping carries
MaxMappingRefs == 2
\* longest string held in a checkpoint entry
MaxStrLen == 2
\* highest wall-clock reading of a checkpoint entry's time
MaxWall == 1
\* longest name given to StripKeySuffix and StripValueSuffix
MaxNameLen == 4
\* highest cost of one LLM call, highest cfg.LLM.MaxCost, and number of LLM
\* calls of one run
MaxCallCost == 2
MaxCostLimit == 2
MaxCalls == 3

(***************************************************************************)
(* Source schemas.  A schema key is <<registry, name>>, the structured     *)
(* form of schemaKey's "registry:name".  Names contain no ':'.             *)
(***************************************************************************)
Schemas == {<<"r1", "a">>, <<"r1", "b">>, <<"r2", "c">>}

schemaKey(registryName, schemaName) == <<registryName, schemaName>>

\* Reference tokens as they appear in a definition: a qualified
\* "registry:name" token, or a bare name (reg = "").
Tokens ==
  {[reg |-> "r1", name |-> "a"], [reg |-> "r1", name |-> "b"],
   [reg |-> "r2", name |-> "c"], [reg |-> "", name |-> "a"],
   [reg |-> "", name |-> "c"], [reg |-> "", name |-> "z"]}

NoKey == <<"", "">>

(***************************************************************************)
(* Helpers.                                                                *)
(***************************************************************************)
RECURSIVE SumOver(_, _)
SumOver(f, S) ==
  IF S = {} THEN 0
  ELSE LET x == CHOOSE y \in S : TRUE IN f[x] + SumOver(f, S \ {x})

Perms(S) == {p \in [1..Cardinality(S) -> S] : \A i, j \in 1..Cardinality(S) : p[i] = p[j] => i = j}

Range(s) == {s[i] : i \in DOMAIN s}

(***************************************************************************)
(* internal/graph/dependency.go                                            *)
(***************************************************************************)
\* resolveReference: the set of keys the lookup may return ({} = "").
resolveReference(nodes, ref, currentRegistry) ==
  IF ref.reg # "" /\ schemaKey(ref.reg, ref.name) \in nodes
    THEN {schemaKey(ref.reg, ref.name)}
  ELSE IF ref.reg = "" /\ schemaKey(currentRegistry, ref.name) \in nodes
    THEN {schemaKey(currentRegistry, ref.name)}
  ELSE IF ref.reg = ""
    THEN {k \in nodes : k[2] = ref.name}
  ELSE {}

\* Build, second pass: the edge multiset.  e[s][t] is the number of
\* entries t in g.edges[s]; g.reverseEdges[t] holds s as many times.
\* The result is the set of edge multisets the map-order dependent
\* third lookup of resolveReference allows.
BuildEdges(refsOf) ==
  LET Resolved == {<<s, t>> \in Schemas \X Tokens :
                     t \in refsOf[s] /\ resolveReference(Schemas, t, s[1]) # {}}
      Choices == {c \in [Resolved -> Schemas] :
                    \A p \in Resolved : c[p] \in resolveReference(Schemas, p[2], p[1][1])}
  IN {[s \in Schemas |-> [t \in Schemas |->
          Cardinality({p \in Resolved : p[1] = s /\ c[p] = t})]] : c \in Choices}

\* detectCycles: DFS with white(0)/gray(1)/black(2) colouring.  rootOrder
\* is the order `range g.nodes` yields, depOrder orders g.edges[node].
\* Returns [color, cycle]; cycle is <<>> or the reported path.
RECURSIVE dfs(_, _, _, _, _)
RECURSIVE dfsDeps(_, _, _, _, _, _)
dfs(node, path, color, e, depOrder) ==
  LET gray == [color EXCEPT ![node] = 1]
      deps == SelectSeq(depOrder, LAMBDA d : e[node][d] > 0)
      r == dfsDeps(node, deps, path, gray, e, depOrder)
  IN IF r.cycle # <<>> THEN r
     ELSE [color |-> [r.color EXCEPT ![node] = 2], cycle |-> <<>>]

dfsDeps(node, deps, path, color, e, depOrder) ==
  IF deps = <<>> THEN [color |-> color, cycle |-> <<>>]
  ELSE LET dep == Head(deps) IN
    IF color[dep] = 1
      THEN [color |-> color, cycle |-> path \o <<node, dep>>]
    ELSE IF color[dep] = 0
      THEN LET r == dfs(dep, Append(path, node), color, e, depOrder) IN
           IF r.cycle # <<>> THEN r
           ELSE dfsDeps(node, Tail(deps), path, r.color, e, depOrder)
    ELSE dfsDeps(node, Tail(deps), path, color, e, depOrder)

RECURSIVE detectRoots(_, _, _, _)
detectRoots(roots, color, e, depOrder) ==
  IF roots = <<>> THEN <<>>
  ELSE IF color[Head(roots)] # 0 THEN detectRoots(Tail(roots), color, e, depOrder)
  ELSE LET r == dfs(Head(roots), <<>>, color, e, depOrder) IN
       IF r.cycle # <<>> THEN r.cycle
       ELSE detectRoots(Tail(roots), r.color, e, depOrder)

detectCycles(e, rootOrder, depOrder) ==
  detectRoots(rootOrder, [k \in Schemas |-> 0], e, depOrder)

\* topologicalSort: inDegree[dep]++ for every entry of g.edges; each round
\* takes the remaining nodes with inDegree 0 and, for each of them,
\* decrements inDegree of every entry of g.reverseEdges[key].
inDegreeOf(e) == [k \in Schemas |-> SumOver([s \in Schemas |-> e[s][k]], Schemas)]

RECURSIVE topoLoop(_, _, _)
topoLoop(remaining, inDegree, e) ==
  IF remaining = {} THEN <<>>
  ELSE LET currentLevel == {k \in remaining : inDegree[k] = 0} IN
    IF currentLevel = {} THEN <<>>
    ELSE LET dec == [d \in Schemas |->
                       SumOver([key \in Schemas |-> e[d][key]], currentLevel)]
         IN <<currentLevel>> \o
            topoLoop(remaining \ currentLevel,
                     [d \in Schemas |-> inDegree[d] - dec[d]], e)

topologicalSort(e) == topoLoop(Schemas, inDegreeOf(e), e)


(***************************************************************************)
(* Extractor: sortVersions and the per-schema version fetch.               *)
(***************************************************************************)
\* sortVersions: exchange sort, for i, for j > i: swap when v[i] > v[j].
RECURSIVE sortInner(_, _, _)
sortInner(v, i, j) ==
  IF j > Len(v) THEN v
  ELSE IF v[i] > v[j]
    THEN sortInner([v EXCEPT ![i] = v[j], ![j] = v[i]], i, j + 1)
  ELSE sortInner(v, i, j + 1)

RECURSIVE sortOuter(_, _)
sortOuter(v, i) ==
  IF i > Len(v) THEN v ELSE sortOuter(sortInner(v, i, i + 1), i + 1)

\* A collection step that keeps the arrival order.
keepArrivalOrder(versions) == versions

sortVersions(versions) == sortOuter(versions, 1)

\* getSchemaVersions: the version numbers listed by the source are fetched
\* in parallel, collected in arrival order, then sorted.
VersionNumbers == 1..MaxVersions

getSchemaVersions(arrival) == sortVersions(arrival)

\* fetchVersionsParallel, what the collecting loop can return with a nil
\* error.  When no fetch fails and every round of the select takes a result:
\* all the listed versions in arrival order.  When no fetch fails and some
\* round takes the closed errors channel: fewer versions.  When the fetch of
\* version f fails and its error is never taken: the versions fetched by the
\* other workers (by the same worker before f when there is one worker),
\* then zero values from the closed results channel up to the listed length.
collectedAll == Perms(VersionNumbers)

collectedWithLoss ==
  UNION {Perms(T) : T \in (SUBSET VersionNumbers) \ {VersionNumbers}}

collectedDespiteFailure(f) ==
  LET T == IF Workers = 1 THEN {v \in VersionNumbers : v < f}
           ELSE VersionNumbers \ {f}
  IN {p \o [i \in 1..(MaxVersions - Cardinality(T)) |-> 0] : p \in Perms(T)}

\* migrateSchema, lines 452-459: the versions to register.
selectVersions(versions, strategy) ==
  IF strategy = "latest" /\ Len(versions) > 0
    THEN <<versions[Len(versions)]>>
  ELSE versions

(***************************************************************************)
(* State.                                                                  *)
(***************************************************************************)
VARIABLES
  dryRun,           \* cfg.Output.DryRun
  hasCheckpoint,    \* m.checkpoint != nil (cfg.Checkpoint.File set)
  resume,           \* cfg.Checkpoint.Resume
  versionStrategy,  \* cfg.Migration.VersionStrategy
  pc,               \* position of Run
  outcome,          \* what Run returned: "none", an error kind, "report" or "result"
  edges,            \* g.edges as multiplicities
  levels,           \* g.levels: sequence of sets of schema keys
  cyclePath,        \* path reported by detectCycles (<<>> if none)
  mapStatus,        \* mapping status per schema after MapAll
  validationErrors, \* validationResult.HasErrors()
  levelIdx,         \* index of the level the loop of Run is at (1-based)
  toMigrate,        \* toMigrate of the current migrateLevel call
  task,             \* per schema: the pool goroutine running executeWithRetry
  state,            \* the in-memory MigrationState
  loaded,           \* completedSchemas as returned by checkpoint.Load
  result,           \* Result counters of Run
  ckptFile,         \* the checkpoint file on disk
  saveBuf,          \* bytes marshalled by the Save in progress
  lastSave,         \* outcome of the last Save call of this run: "none", "ok", "error"
  targetLog,        \* per schema: the register requests sent (version, attempt of the pool)
  cancelled,        \* ctx.Done() is closed
  faults            \* adverse events so far (see MaxFaults)

\* State of one parallel fan-out of the extractor (fetchSchemasParallel,
\* fetchVersionsParallel).
VARIABLES
  fKind,            \* "none", "schemas" or "versions": which fan-out runs
  fItems,           \* the requested items (schemaNames, versionNumbers)
  fFail,            \* the items whose fetch the source fails
  jobs,             \* the jobs channel (closed once all jobs are sent)
  worker,           \* per worker goroutine: position and the job it holds
  results,          \* buffered content of the results channel
  errors,           \* buffered content of the errors channel
  closed,           \* 0: both open, 1: results closed, 2: errors closed too
  collected,        \* the slice the collecting loop builds
  iter,             \* i of the collecting loop
  fRet              \* "running", "ok" (nil error) or "error"

fetchVars == <<fKind, fItems, fFail, jobs, worker, results, errors, closed,
               collected, iter, fRet>>

\* State of the naming steps of Run (MapAll, collision resolution,
\* validation) on mappings whose names are modelled as character sequences.
VARIABLES
  collisionResolution, \* cfg.Normalization.CollisionResolution
  mapped,              \* the mappings as MapAll returned them
  mappings,            \* the slice `mappings` of Run
  levelSchemas,        \* per schema key: the mapping held in levels[i].Schemas
  registered           \* keys and subjects of the register requests sent

nameVars == <<collisionResolution, mapped, mappings, levelSchemas, registered>>

\* State of the two rate limiters and of the operations that go through
\* them (extractor and loader).
VARIABLES
  bucket,           \* per side (source, target): tokens in the limiter's bucket
  op,               \* per caller: its side, position and counts
  ctxDone           \* the ctx the callers were given is cancelled

limVars == <<bucket, op, ctxDone>>

\* State of one RegisterSchema call as far as references go.
VARIABLES
  referenceStrategy, \* cfg.Migration.ReferenceStrategy
  refs,              \* mapping.References
  refContext,        \* mapping.TargetContext
  reqReferences      \* reqBody.References: [state, list], state "unset"
                     \* before the call, then "built", "omitted" or "error"

refVars == <<referenceStrategy, refs, refContext, reqReferences>>

\* State of the LLM namer.  Costs are counted in a fixed unit (cents).
VARIABLES
  maxCost,          \* cfg.LLM.MaxCost (0: no limit)
  totalCost,        \* n.totalCost
  callCount,        \* n.callCount
  cache,            \* the keys n.cache holds a suggestion for
  providerCalls,    \* number of calls of n.provider.Complete
  llmTokens,        \* number of tokens taken from the provider's limiter
  suggestKey,       \* the schema the last SuggestName was called for
  suggestRet        \* what the last SuggestName returned

llmVars == <<maxCost, totalCost, callCount, cache, providerCalls, llmTokens,
          suggestKey, suggestRet>>

\* State of a checkpoint round trip: one Save followed by one Load.
VARIABLES
  memState,         \* the *MigrationState handed to Save
  diskFile,         \* the file at c.path: its status and the JSON document
  loadRet,          \* what Load returned
  ckPc              \* "save", "load" or "done"

ckptVars == <<memState, diskFile, loadRet, ckPc>>

\* State of one key/value detection.
VARIABLES
  detector,         \* the Detector built by keyvalue.New
  detectIn,         \* the arguments of Detect
  detectRet         \* the DetectionResult ("unset" before the call)

detVars == <<detector, detectIn, detectRet>>

\* State of the repeated application of a suffix stripping function.
VARIABLES
  stripIn,          \* the function ("key" or "value") and the name
  stripOut          \* the results of the applications so far

stripVars == <<stripIn, stripOut>>

\* State of the registration of a schema and of the schema it references.
VARIABLES
  contextMapping,   \* cfg.Naming.ContextMapping
  refTarget,        \* the referenced schema and its SchemaMapping
  targetWire        \* the subject of the register request for it

wireVars == <<contextMapping, refTarget, targetWire>>

pureVars == <<ckptVars, detVars, stripVars, wireVars>>

sideVars == <<limVars, refVars, llmVars, pureVars>>

auxVars == <<fetchVars, nameVars, sideVars>>

runVars == <<dryRun, hasCheckpoint, resume, versionStrategy, pc, outcome, edges,
          levels, cyclePath, mapStatus, validationErrors, levelIdx, toMigrate,
          task, state, loaded, result, ckptFile, saveBuf, lastSave, targetLog,
          cancelled, faults>>

vars == <<runVars, auxVars>>

\* No fan-out is modelled in this behaviour.
FetchIdle ==
  /\ fKind = "none"
  /\ fItems = <<>>
  /\ fFail = {}
  /\ jobs = <<>>
  /\ worker = <<>>
  /\ results = <<>>
  /\ errors = <<>>
  /\ closed = 0
  /\ collected = <<>>
  /\ iter = 0
  /\ fRet = "running"

\* The naming steps are not modelled in this behaviour.
NamingIdle ==
  /\ collisionResolution = "suffix"
  /\ mapped = <<>>
  /\ mappings = <<>>
  /\ levelSchemas = <<>>
  /\ registered = {}

\* No limiter operation is modelled in this behaviour.
LimiterIdle ==
  /\ bucket = [side \in {"source", "target"} |-> 1]
  /\ op = <<>>
  /\ ctxDone = FALSE

\* No reference rewriting is modelled in this behaviour.
RefIdle ==
  /\ referenceStrategy = "rewrite"
  /\ refs = <<>>
  /\ refContext = <<>>
  /\ reqReferences = [state |-> "unset", list |-> <<>>]

\* The LLM namer is not modelled in this behaviour.
NamerIdle ==
  /\ maxCost = 0
  /\ totalCost = 0
  /\ callCount = 0
  /\ cache = {}
  /\ providerCalls = 0
  /\ llmTokens = 0
  /\ suggestKey = <<>>
  /\ suggestRet = "none"

\* No checkpoint round trip is modelled in this behaviour.
CkptIdle ==
  /\ memState = <<>>
  /\ diskFile = [status |-> "missing"]
  /\ loadRet = [state |-> "unset", value |-> <<>>]
  /\ ckPc = "idle"

\* No detection is modelled in this behaviour.
DetectIdle ==
  /\ detector = <<>>
  /\ detectIn = <<>>
  /\ detectRet = [role |-> "unset", reason |-> "unset"]

\* No suffix is stripped in this behaviour.
StripIdle ==
  /\ stripIn = <<>>
  /\ stripOut = <<>>

\* No referenced schema is modelled in this behaviour.
WireIdle ==
  /\ contextMapping = "flat"
  /\ refTarget = <<>>
  /\ targetWire = [sent |-> FALSE, subject |-> <<>>]

PureIdle == CkptIdle /\ DetectIdle /\ StripIdle /\ WireIdle

SideIdle == LimiterIdle /\ RefIdle /\ NamerIdle /\ PureIdle

NoEntry == [present |-> FALSE, versions |-> 0, at |-> 0]

\* models.NewMigrationState
NewMigrationState ==
  [completedSchemas |-> [k \in Schemas |-> NoEntry],
   failedSchemas |-> {},
   totalSchemas |-> 0, completedCount |-> 0, failedCount |-> 0,
   skippedCount |-> 0]

\* A checkpoint left by an earlier run in which the schemas of P completed.
PriorState(P) ==
  [NewMigrationState EXCEPT
     !.completedSchemas = [k \in Schemas |->
        IF k \in P THEN [present |-> TRUE, versions |-> MaxVersions, at |-> 0]
        ELSE NoEntry],
     !.totalSchemas = Cardinality(Schemas),
     !.completedCount = Cardinality(P)]

\* A task of the pool before g.Go: err is the value executeWithRetry holds
\* or returns, workErr what the last call of work returned, slot is
\* errors[i], progress counts the calls of the progress callback, calls the
\* invocations of the work function.
NewTask == [pc |-> "new", attempt |-> 0, vi |-> 1, versions |-> <<>>,
            err |-> "nil", tmp |-> 0, workErr |-> "none", slot |-> "unset",
            progress |-> 0, calls |-> 0]

PriorSets == {{}, {<<"r1", "a">>}}

Init ==
  /\ dryRun \in BOOLEAN
  /\ hasCheckpoint \in BOOLEAN
  /\ resume \in BOOLEAN
  /\ (resume => hasCheckpoint)
  /\ versionStrategy \in {"all", "latest"}
  /\ pc = "plan"
  /\ outcome = "none"
  /\ edges = [s \in Schemas |-> [t \in Schemas |-> 0]]
  /\ levels = <<>>
  /\ cyclePath = <<>>
  /\ mapStatus = [k \in Schemas |-> "ready"]
  /\ validationErrors = FALSE
  /\ levelIdx = 1
  /\ toMigrate = {}
  /\ task = [k \in Schemas |-> NewTask]
  /\ state = NewMigrationState
  /\ loaded = [k \in Schemas |-> NoEntry]
  /\ result = [successful |-> 0, failed |-> 0, skipped |-> 0]
  /\ \E P \in PriorSets :
       ckptFile = IF resume /\ P # {}
                    THEN [status |-> "ok", data |-> PriorState(P)]
                    ELSE [status |-> "missing", data |-> NewMigrationState]
  /\ saveBuf = NewMigrationState
  /\ lastSave = "none"
  /\ targetLog = [k \in Schemas |-> <<>>]
  /\ cancelled = FALSE
  /\ faults = 0
  /\ FetchIdle
  /\ NamingIdle
  /\ SideIdle


(***************************************************************************)
(* Migrator.Run, steps 1-5: extract, build the graph, map, validate, and   *)
(* either report (dry run) or load the migration state.                    *)
(***************************************************************************)
\* The reference tokens of the extracted schemas: at most MaxRefs in all.
RefInputs ==
  {[s \in Schemas |-> {p[2] : p \in {q \in Range(sq) : q[1] = s}}] :
     sq \in UNION {[1..n -> Schemas \X Tokens] : n \in 0..MaxRefs}}

Orders == Perms(Schemas)

Fail(kind) ==
  /\ pc' = "done"
  /\ outcome' = kind

\* The schemas whose latest definition parseSchema cannot parse (an Avro
\* or JSON definition that is not a JSON object).
ParseFailures == {{}, {<<"r1", "a">>}}

\* Build lines 40-48: the first pass returns the error of parseSchema.
parseAborts(bad) == bad # {}

\* Run lines 117-132: ExtractAll, graph.Build, GetLevels.
ExtractAndBuild ==
  /\ pc = "plan"
  /\ \/ /\ faults < MaxFaults
        /\ faults' = faults + 1
        /\ Fail("extract_error")
        /\ UNCHANGED <<edges, levels, cyclePath>>
     \/ /\ \E bad \in ParseFailures : parseAborts(bad)
        /\ Fail("parse_error")
        /\ UNCHANGED <<edges, levels, cyclePath, faults>>
     \/ \E refsOf \in RefInputs : \E e \in BuildEdges(refsOf) :
        \E rootOrder \in Orders, depOrder \in Orders :
          LET cyc == detectCycles(e, rootOrder, depOrder) IN
          /\ edges' = e
          /\ cyclePath' = cyc
          /\ IF cyc # <<>>
               THEN /\ Fail("cycle_error")
                    /\ levels' = <<>>
               ELSE /\ levels' = topologicalSort(e)
                    /\ pc' = "map"
                    /\ outcome' = outcome
          /\ faults' = faults
  /\ UNCHANGED <<dryRun, hasCheckpoint, resume, versionStrategy, mapStatus,
                 validationErrors, levelIdx, toMigrate, task, state, loaded,
                 result, ckptFile, saveBuf, lastSave, targetLog, cancelled>>
  /\ UNCHANGED auxVars

\* Schemas whose mapping the mapper may return with status error.
MapErrSets == {{}, {<<"r1", "b">>}}

\* Run lines 134-203: MapAll, reconcile the levels, ValidateAll.
MapAndValidate ==
  /\ pc = "map"
  /\ \E errs \in MapErrSets, verr \in BOOLEAN :
       /\ mapStatus' = [k \in Schemas |-> IF k \in errs THEN "error" ELSE "ready"]
       /\ validationErrors' = verr
       /\ IF verr /\ ~dryRun
            THEN Fail("validation_error")
            ELSE /\ pc' = "branch"
                 /\ outcome' = outcome
  /\ UNCHANGED <<dryRun, hasCheckpoint, resume, versionStrategy, edges, levels,
                 cyclePath, levelIdx, toMigrate, task, state, loaded, result,
                 ckptFile, saveBuf, lastSave, targetLog, cancelled, faults>>
  /\ UNCHANGED auxVars

\* Run lines 222-228.
DryRunReport ==
  /\ pc = "branch"
  /\ dryRun
  /\ pc' = "done"
  /\ outcome' = "report"
  /\ UNCHANGED <<dryRun, hasCheckpoint, resume, versionStrategy, edges, levels,
                 cyclePath, mapStatus, validationErrors, levelIdx, toMigrate,
                 task, state, loaded, result, ckptFile, saveBuf, lastSave,
                 targetLog, cancelled, faults>>
  /\ UNCHANGED auxVars

\* CheckpointManager.Load: the decoded file, or an error.
Load(file) ==
  IF file.status = "ok" THEN [ok |-> TRUE, state |-> file.data]
  ELSE [ok |-> FALSE, state |-> NewMigrationState]

\* The execution branch entered whatever cfg.Output.DryRun says.
LoadStateAlways ==
  /\ pc = "branch"
  /\ LET l == Load(ckptFile)
         st == IF hasCheckpoint /\ resume /\ l.ok THEN l.state
               ELSE NewMigrationState
     IN /\ state' = [st EXCEPT !.totalSchemas = Cardinality(Schemas)]
        /\ loaded' = st.completedSchemas
  /\ pc' = "level"
  /\ levelIdx' = 1
  /\ UNCHANGED <<dryRun, hasCheckpoint, resume, versionStrategy, outcome, edges,
                 levels, cyclePath, mapStatus, validationErrors, toMigrate, task,
                 result, ckptFile, saveBuf, lastSave, targetLog, cancelled, faults>>
  /\ UNCHANGED auxVars

\* Run lines 233-247.
LoadState ==
  /\ pc = "branch"
  /\ ~dryRun
  /\ LET l == Load(ckptFile)
         st == IF hasCheckpoint /\ resume /\ l.ok THEN l.state
               ELSE NewMigrationState
     IN /\ state' = [st EXCEPT !.totalSchemas = Cardinality(Schemas)]
        /\ loaded' = st.completedSchemas
  /\ pc' = "level"
  /\ levelIdx' = 1
  /\ UNCHANGED <<dryRun, hasCheckpoint, resume, versionStrategy, outcome, edges,
                 levels, cyclePath, mapStatus, validationErrors, toMigrate, task,
                 result, ckptFile, saveBuf, lastSave, targetLog, cancelled, faults>>
  /\ UNCHANGED auxVars


(***************************************************************************)
(* Migrator.migrateLevel and the worker pool.                              *)
(***************************************************************************)
\* A filter that skips only the mappings in status error.
filterStatusOnly(level, st, status) == {k \in level : status[k] # "error"}

\* migrateLevel lines 367-380: the schemas of the level left to migrate.
filterLevel(level, st, status) ==
  {k \in level : ~st.completedSchemas[k].present /\ status[k] # "error"}

\* migrateSchema lines 476-482: the CompletedSchemas entry.
markCompleted(st, k, n) ==
  [st EXCEPT !.completedSchemas[k] = [present |-> TRUE, versions |-> n, at |-> 1]]

\* migrateSchema lines 442-448 and 464-470: the FailedSchemas entry.
markFailed(st, k) == [st EXCEPT !.failedSchemas = @ \cup {k}]

Active == {k \in Schemas : task[k].pc \notin {"new", "done"}}

NextLevel ==
  /\ pc' = "level"
  /\ levelIdx' = levelIdx + 1

\* Run line 250 with migrateLevel up to the call of the pool; a level with
\* nothing to migrate returns at line 383.
StartLevel ==
  /\ pc = "level"
  /\ levelIdx <= Len(levels)
  /\ LET tm == filterLevel(levels[levelIdx], state, mapStatus) IN
     /\ toMigrate' = tm
     /\ IF tm = {}
          THEN /\ pc' = "save"
               /\ result' = [result EXCEPT
                    !.skipped = @ + Cardinality(levels[levelIdx])]
          ELSE /\ pc' = "pool"
               /\ result' = result
  /\ UNCHANGED <<dryRun, hasCheckpoint, resume, versionStrategy, outcome, edges,
                 levels, cyclePath, mapStatus, validationErrors, levelIdx, task,
                 state, loaded, ckptFile, saveBuf, lastSave, targetLog, cancelled,
                 faults>>
  /\ UNCHANGED auxVars

\* A g.Go that starts the task whatever the number of running goroutines.
SubmitUnbounded(k) ==
  /\ pc = "pool"
  /\ k \in toMigrate
  /\ task[k].pc = "new"
  /\ task' = [task EXCEPT ![k].pc = "loop"]
  /\ UNCHANGED <<dryRun, hasCheckpoint, resume, versionStrategy, pc, outcome,
                 edges, levels, cyclePath, mapStatus, validationErrors, levelIdx,
                 toMigrate, state, loaded, result, ckptFile, saveBuf, lastSave,
                 targetLog, cancelled, faults>>
  /\ UNCHANGED auxVars

\* ExecuteWithProgress lines 50-62: g.Go starts the next task once fewer
\* than Workers goroutines are running.
Submit(k) ==
  /\ pc = "pool"
  /\ k \in toMigrate
  /\ task[k].pc = "new"
  /\ Cardinality(Active) < Workers
  /\ task' = [task EXCEPT ![k].pc = "loop"]
  /\ UNCHANGED <<dryRun, hasCheckpoint, resume, versionStrategy, pc, outcome,
                 edges, levels, cyclePath, mapStatus, validationErrors, levelIdx,
                 toMigrate, state, loaded, result, ckptFile, saveBuf, lastSave,
                 targetLog, cancelled, faults>>
  /\ UNCHANGED auxVars

\* A loop head that also gives up when a sibling task has reported an error,
\* as a group whose context is cancelled by the first failure would.
TaskCheckGroupCancelled(k) ==
  /\ task[k].pc = "loop"
  /\ task' = [task EXCEPT ![k] =
       IF cancelled \/ \E j \in Schemas : task[j].slot \notin {"unset", "nil"}
         THEN [@ EXCEPT !.pc = "ret", !.err = "cancelled"]
       ELSE [@ EXCEPT !.pc = "work", !.calls = @ + 1]]
  /\ UNCHANGED <<dryRun, hasCheckpoint, resume, versionStrategy, pc, outcome,
                 edges, levels, cyclePath, mapStatus, validationErrors, levelIdx,
                 toMigrate, state, loaded, result, ckptFile, saveBuf, lastSave,
                 targetLog, cancelled, faults>>
  /\ UNCHANGED auxVars

\* A loop head without the check of ctx.Done().
TaskCheckIgnoringCancel(k) ==
  /\ task[k].pc = "loop"
  /\ task' = [task EXCEPT ![k] = [@ EXCEPT !.pc = "work", !.calls = @ + 1]]
  /\ UNCHANGED <<dryRun, hasCheckpoint, resume, versionStrategy, pc, outcome,
                 edges, levels, cyclePath, mapStatus, validationErrors, levelIdx,
                 toMigrate, state, loaded, result, ckptFile, saveBuf, lastSave,
                 targetLog, cancelled, faults>>
  /\ UNCHANGED auxVars

\* executeWithRetry lines 72-78: the cancellation check at the loop head
\* and, when ctx is not done, the call of work.
TaskCheck(k) ==
  /\ task[k].pc = "loop"
  /\ task' = [task EXCEPT ![k] =
       IF cancelled THEN [@ EXCEPT !.pc = "ret", !.err = "cancelled"]
       ELSE [@ EXCEPT !.pc = "work", !.calls = @ + 1]]
  /\ UNCHANGED <<dryRun, hasCheckpoint, resume, versionStrategy, pc, outcome,
                 edges, levels, cyclePath, mapStatus, validationErrors, levelIdx,
                 toMigrate, state, loaded, result, ckptFile, saveBuf, lastSave,
                 targetLog, cancelled, faults>>
  /\ UNCHANGED auxVars

\* A retry loop that returns the first error without a retry.
failWithoutRetry(t, err) == [t EXCEPT !.pc = "ret", !.err = err, !.workErr = err]

\* A retry loop that returns nil once the attempts are used up.
swallowFailure(t, err) ==
  IF t.attempt < RetryAttempts
    THEN [t EXCEPT !.pc = "sleep", !.err = err, !.workErr = err]
    ELSE [t EXCEPT !.pc = "ret", !.err = "nil", !.workErr = err]

\* executeWithRetry lines 78-96 after work returned err: back off when an
\* attempt is left, else return lastErr.
afterFailure(t, err) ==
  IF t.attempt < RetryAttempts
    THEN [t EXCEPT !.pc = "sleep", !.err = err, !.workErr = err]
    ELSE [t EXCEPT !.pc = "ret", !.err = err, !.workErr = err]

\* migrateSchema lines 450-461: the versions to register are chosen; with
\* none, the loop over them is empty.
fetched(t, arrival) ==
  LET vs == selectVersions(getSchemaVersions(arrival), versionStrategy)
  IN [t EXCEPT !.pc = IF vs = <<>> THEN "mark" ELSE "reg", !.vi = 1,
               !.versions = vs]

\* migrateSchema lines 439-459: GetSchema of the extractor and the choice
\* of the versions.  The limiter's Wait fails once ctx is cancelled.
GetSchema(k) ==
  /\ task[k].pc = "work"
  /\ \/ /\ cancelled \/ faults < MaxFaults
        /\ faults' = IF cancelled THEN faults ELSE faults + 1
        /\ state' = markFailed(state, k)
        /\ task' = [task EXCEPT ![k] = afterFailure(@, "fetch")]
     \/ /\ ~cancelled
        /\ \/ /\ \E arrival \in collectedAll :
                   task' = [task EXCEPT ![k] = fetched(@, arrival)]
              /\ faults' = faults
           \/ /\ faults < MaxFaults
              /\ faults' = faults + 1
              /\ \E arrival \in collectedWithLoss \cup
                     UNION {collectedDespiteFailure(f) : f \in VersionNumbers} :
                   task' = [task EXCEPT ![k] = fetched(@, arrival)]
        /\ state' = state
  /\ UNCHANGED <<dryRun, hasCheckpoint, resume, versionStrategy, pc, outcome,
                 edges, levels, cyclePath, mapStatus, validationErrors, levelIdx,
                 toMigrate, loaded, result, ckptFile, saveBuf, lastSave, targetLog,
                 cancelled>>
  /\ UNCHANGED auxVars

\* migrateSchema lines 461-473: one RegisterSchema call of the loader.  A
\* cancelled ctx fails the limiter's Wait before any request is sent.
Register(k) ==
  /\ task[k].pc = "reg"
  /\ LET t == task[k]
         v == t.versions[t.vi]
     IN \/ /\ cancelled
           /\ state' = markFailed(state, k)
           /\ task' = [task EXCEPT ![k] = afterFailure(@, "register")]
           /\ UNCHANGED <<targetLog, faults>>
        \/ /\ ~cancelled
           /\ targetLog' = [targetLog EXCEPT ![k] =
                Append(@, [version |-> v, attempt |-> t.attempt])]
           /\ \/ /\ task' = [task EXCEPT ![k] =
                      IF t.vi = Len(t.versions) THEN [@ EXCEPT !.pc = "mark"]
                      ELSE [@ EXCEPT !.vi = @ + 1]]
                 /\ UNCHANGED <<state, faults>>
              \/ /\ faults < MaxFaults
                 /\ faults' = faults + 1
                 /\ state' = markFailed(state, k)
                 /\ task' = [task EXCEPT ![k] = afterFailure(@, "register")]
  /\ UNCHANGED <<dryRun, hasCheckpoint, resume, versionStrategy, pc, outcome,
                 edges, levels, cyclePath, mapStatus, validationErrors, levelIdx,
                 toMigrate, loaded, result, ckptFile, saveBuf, lastSave, cancelled>>
  /\ UNCHANGED auxVars

\* migrateSchema lines 476-483, first half: the map write and the read of
\* CompletedCount (CompletedCount++ is not atomic).
MarkCompleted(k) ==
  /\ task[k].pc = "mark"
  /\ state' = markCompleted(state, k, Len(task[k].versions))
  /\ task' = [task EXCEPT ![k] = [@ EXCEPT !.pc = "inc", !.tmp = state.completedCount]]
  /\ UNCHANGED <<dryRun, hasCheckpoint, resume, versionStrategy, pc, outcome,
                 edges, levels, cyclePath, mapStatus, validationErrors, levelIdx,
                 toMigrate, loaded, result, ckptFile, saveBuf, lastSave, targetLog,
                 cancelled, faults>>
  /\ UNCHANGED auxVars

\* migrateSchema line 483, second half: the write of CompletedCount.
IncCount(k) ==
  /\ task[k].pc = "inc"
  /\ state' = [state EXCEPT !.completedCount = task[k].tmp + 1]
  /\ task' = [task EXCEPT ![k] =
       [@ EXCEPT !.pc = "ret", !.err = "nil", !.workErr = "nil"]]
  /\ UNCHANGED <<dryRun, hasCheckpoint, resume, versionStrategy, pc, outcome,
                 edges, levels, cyclePath, mapStatus, validationErrors, levelIdx,
                 toMigrate, loaded, result, ckptFile, saveBuf, lastSave, targetLog,
                 cancelled, faults>>
  /\ UNCHANGED auxVars

\* executeWithRetry lines 85-93: the backoff select.
Sleep(k) ==
  /\ task[k].pc = "sleep"
  /\ \/ /\ cancelled
        /\ task' = [task EXCEPT ![k] = [@ EXCEPT !.pc = "ret", !.err = "cancelled"]]
     \/ task' = [task EXCEPT ![k] = [@ EXCEPT !.pc = "loop", !.attempt = @ + 1]]
  /\ UNCHANGED <<dryRun, hasCheckpoint, resume, versionStrategy, pc, outcome,
                 edges, levels, cyclePath, mapStatus, validationErrors, levelIdx,
                 toMigrate, state, loaded, result, ckptFile, saveBuf, lastSave,
                 targetLog, cancelled, faults>>
  /\ UNCHANGED auxVars

\* A goroutine that stores the error and does not call progress.
ReportSilently(k) ==
  /\ task[k].pc = "ret"
  /\ task' = [task EXCEPT ![k] = [@ EXCEPT !.pc = "done", !.slot = task[k].err]]
  /\ UNCHANGED <<dryRun, hasCheckpoint, resume, versionStrategy, pc, outcome,
                 edges, levels, cyclePath, mapStatus, validationErrors, levelIdx,
                 toMigrate, state, loaded, result, ckptFile, saveBuf, lastSave,
                 targetLog, cancelled, faults>>
  /\ UNCHANGED auxVars

\* ExecuteWithProgress lines 54-60: errors[i] = err, progress(), return.
Report(k) ==
  /\ task[k].pc = "ret"
  /\ task' = [task EXCEPT ![k] =
       [@ EXCEPT !.pc = "done", !.slot = task[k].err, !.progress = @ + 1]]
  /\ UNCHANGED <<dryRun, hasCheckpoint, resume, versionStrategy, pc, outcome,
                 edges, levels, cyclePath, mapStatus, validationErrors, levelIdx,
                 toMigrate, state, loaded, result, ckptFile, saveBuf, lastSave,
                 targetLog, cancelled, faults>>
  /\ UNCHANGED auxVars

\* g.Wait returns; migrateLevel lines 415-433 and Run lines 258-261.
CollectLevel ==
  /\ pc = "pool"
  /\ \A k \in toMigrate : task[k].pc = "done"
  /\ result' =
       [successful |-> result.successful
                         + Cardinality({k \in toMigrate : task[k].slot = "nil"}),
        failed |-> result.failed
                         + Cardinality({k \in toMigrate : task[k].slot # "nil"}),
        skipped |-> result.skipped
                         + Cardinality(levels[levelIdx] \ toMigrate)]
  /\ pc' = "save"
  /\ UNCHANGED <<dryRun, hasCheckpoint, resume, versionStrategy, outcome, edges,
                 levels, cyclePath, mapStatus, validationErrors, levelIdx,
                 toMigrate, task, state, loaded, ckptFile, saveBuf, lastSave,
                 targetLog, cancelled, faults>>
  /\ UNCHANGED auxVars

\* The interrupt handler of runMigrate cancels ctx while a level executes.
Cancel ==
  /\ pc = "pool"
  /\ ~cancelled
  /\ cancelled' = TRUE
  /\ UNCHANGED <<dryRun, hasCheckpoint, resume, versionStrategy, pc, outcome,
                 edges, levels, cyclePath, mapStatus, validationErrors, levelIdx,
                 toMigrate, task, state, loaded, result, ckptFile, saveBuf, lastSave,
                 targetLog, faults>>
  /\ UNCHANGED auxVars

(***************************************************************************)
(* CheckpointManager.Save as called by Run lines 263-268.  os.WriteFile    *)
(* opens the file with O_TRUNC, then writes the marshalled bytes.          *)
(***************************************************************************)
Truncated == [status |-> "empty", data |-> NewMigrationState]

\* The checkpoint file once os.WriteFile has opened it.
openForWrite(file) == Truncated

\* Run line 264 with no checkpoint manager.
SkipSave ==
  /\ pc = "save"
  /\ ~hasCheckpoint
  /\ NextLevel
  /\ UNCHANGED <<dryRun, hasCheckpoint, resume, versionStrategy, outcome, edges,
                 levels, cyclePath, mapStatus, validationErrors, toMigrate, task,
                 state, loaded, result, ckptFile, saveBuf, lastSave, targetLog,
                 cancelled, faults>>
  /\ UNCHANGED auxVars

\* Save lines 55-60, up to the open: it fails (Run only warns, line 266)
\* or leaves the file truncated.
SaveOpen ==
  /\ pc = "save"
  /\ hasCheckpoint
  /\ \/ /\ faults < MaxFaults
        /\ faults' = faults + 1
        /\ lastSave' = "error"
        /\ NextLevel
        /\ UNCHANGED <<ckptFile, saveBuf>>
     \/ /\ ckptFile' = openForWrite(ckptFile)
        /\ saveBuf' = state
        /\ pc' = "saving"
        /\ UNCHANGED <<levelIdx, faults, lastSave>>
  /\ UNCHANGED <<dryRun, hasCheckpoint, resume, versionStrategy, outcome, edges,
                 levels, cyclePath, mapStatus, validationErrors, toMigrate, task,
                 state, loaded, result, targetLog, cancelled>>
  /\ UNCHANGED auxVars

\* A write that returns nil after the open and leaves the file truncated.
SaveWriteNothing ==
  /\ pc = "saving"
  /\ lastSave' = "ok"
  /\ NextLevel
  /\ UNCHANGED <<dryRun, hasCheckpoint, resume, versionStrategy, outcome, edges,
                 levels, cyclePath, mapStatus, validationErrors, toMigrate, task,
                 state, loaded, result, ckptFile, saveBuf, targetLog, cancelled,
                 faults>>
  /\ UNCHANGED auxVars

\* Save line 60, the write and close: the file holds the new document.
SaveWrite ==
  /\ pc = "saving"
  /\ ckptFile' = [status |-> "ok", data |-> saveBuf]
  /\ lastSave' = "ok"
  /\ NextLevel
  /\ UNCHANGED <<dryRun, hasCheckpoint, resume, versionStrategy, outcome, edges,
                 levels, cyclePath, mapStatus, validationErrors, toMigrate, task,
                 state, loaded, result, saveBuf, targetLog, cancelled, faults>>
  /\ UNCHANGED auxVars

\* The process dies while Save runs.
Crash ==
  /\ pc \in {"save", "saving"}
  /\ hasCheckpoint
  /\ pc' = "crashed"
  /\ UNCHANGED <<dryRun, hasCheckpoint, resume, versionStrategy, outcome, edges,
                 levels, cyclePath, mapStatus, validationErrors, levelIdx,
                 toMigrate, task, state, loaded, result, ckptFile, saveBuf, lastSave,
                 targetLog, cancelled, faults>>
  /\ UNCHANGED auxVars

\* Run lines 271-279: the level loop is over, Run returns its result.
Finish ==
  /\ pc = "level"
  /\ levelIdx > Len(levels)
  /\ pc' = "done"
  /\ outcome' = "result"
  /\ UNCHANGED <<dryRun, hasCheckpoint, resume, versionStrategy, edges, levels,
                 cyclePath, mapStatus, validationErrors, levelIdx, toMigrate,
                 task, state, loaded, result, ckptFile, saveBuf, lastSave,
                 targetLog, cancelled, faults>>
  /\ UNCHANGED auxVars

Next ==
  \/ ExtractAndBuild
  \/ MapAndValidate
  \/ DryRunReport
  \/ LoadState
  \/ StartLevel
  \/ \E k \in Schemas : Submit(k)
  \/ \E k \in Schemas : TaskCheck(k)
  \/ \E k \in Schemas : GetSchema(k)
  \/ \E k \in Schemas : Register(k)
  \/ \E k \in Schemas : MarkCompleted(k)
  \/ \E k \in Schemas : IncCount(k)
  \/ \E k \in Schemas : Sleep(k)
  \/ \E k \in Schemas : Report(k)
  \/ CollectLevel
  \/ Cancel
  \/ SkipSave
  \/ SaveOpen
  \/ SaveWrite
  \/ Crash
  \/ Finish

Spec == Init /\ [][Next]_vars

(***************************************************************************)
(* The worker pool on its own: ExecuteWithProgress called with the tasks   *)
(* of toMigrate and a work function that may return nil or any error,      *)
(* every time it is called.                                                *)
(***************************************************************************)
\* What a call of a WorkFunc may return: nil, an error that may pass (a
\* timeout, a throttled request), or an authorization error of the source
\* or the target.
WorkResults == {"nil", "transient", "auth"}

\* The state of Run when migrateLevel calls the pool for a level that
\* holds every schema.
PoolInit ==
  /\ dryRun = FALSE
  /\ hasCheckpoint = FALSE
  /\ resume = FALSE
  /\ versionStrategy = "all"
  /\ pc = "pool"
  /\ outcome = "none"
  /\ edges = [s \in Schemas |-> [t \in Schemas |-> 0]]
  /\ levels = <<Schemas>>
  /\ cyclePath = <<>>
  /\ mapStatus \in {[k \in Schemas |-> IF k \in errs THEN "error" ELSE "ready"] :
                     errs \in MapErrSets}
  /\ validationErrors = FALSE
  /\ levelIdx = 1
  /\ toMigrate = filterLevel(levels[levelIdx], NewMigrationState, mapStatus)
  /\ task = [k \in Schemas |-> NewTask]
  /\ state = [NewMigrationState EXCEPT !.totalSchemas = Cardinality(Schemas)]
  /\ loaded = [k \in Schemas |-> NoEntry]
  /\ result = [successful |-> 0, failed |-> 0, skipped |-> 0]
  /\ ckptFile = [status |-> "missing", data |-> NewMigrationState]
  /\ saveBuf = NewMigrationState
  /\ lastSave = "none"
  /\ targetLog = [k \in Schemas |-> <<>>]
  /\ cancelled = FALSE
  /\ faults = 0
  /\ FetchIdle
  /\ NamingIdle
  /\ SideIdle

\* executeWithRetry lines 78-96: work returns; nil ends the loop, an error
\* is kept as lastErr and retried or returned.
PoolWork(k) ==
  /\ task[k].pc = "work"
  /\ \E r \in WorkResults :
       task' = [task EXCEPT ![k] =
         IF r = "nil" THEN [@ EXCEPT !.pc = "ret", !.err = "nil", !.workErr = "nil"]
         ELSE afterFailure(@, r)]
  /\ UNCHANGED <<dryRun, hasCheckpoint, resume, versionStrategy, pc, outcome,
                 edges, levels, cyclePath, mapStatus, validationErrors, levelIdx,
                 toMigrate, state, loaded, result, ckptFile, saveBuf, lastSave,
                 targetLog, cancelled, faults>>
  /\ UNCHANGED auxVars

PoolNext ==
  \/ \E k \in Schemas : Submit(k)
  \/ \E k \in Schemas : TaskCheck(k)
  \/ \E k \in Schemas : PoolWork(k)
  \/ \E k \in Schemas : Sleep(k)
  \/ \E k \in Schemas : Report(k)
  \/ Cancel
  \/ CollectLevel

PoolSpec == PoolInit /\ [][PoolNext]_vars

(***************************************************************************)
(* Extractor: the parallel fan-out of fetchSchemasParallel and             *)
(* fetchVersionsParallel.  Both start numWorkers goroutines that range     *)
(* over a jobs channel, send to a results or an errors channel, and a      *)
(* closer goroutine that closes both channels after wg.Wait; the caller    *)
(* runs len(items) rounds of a select over the channels.  An item is its   *)
(* position in the listing; 0 is the zero value a closed results channel   *)
(* yields (a nil schema, a version with VersionNumber 0).                  *)
(***************************************************************************)
\* The variables of the run other than dryRun, pc, outcome and
\* validationErrors, and their value when the run is not modelled.
runRest == <<hasCheckpoint, resume, versionStrategy, edges, levels, cyclePath,
             mapStatus, levelIdx, toMigrate, task, state, loaded, result,
             ckptFile, saveBuf, lastSave, targetLog, cancelled, faults>>

RunRestIdle ==
  /\ hasCheckpoint = FALSE
  /\ resume = FALSE
  /\ versionStrategy = "all"
  /\ edges = [s \in Schemas |-> [t \in Schemas |-> 0]]
  /\ levels = <<>>
  /\ cyclePath = <<>>
  /\ mapStatus = [k \in Schemas |-> "ready"]
  /\ levelIdx = 1
  /\ toMigrate = {}
  /\ task = [k \in Schemas |-> NewTask]
  /\ state = NewMigrationState
  /\ loaded = [k \in Schemas |-> NoEntry]
  /\ result = [successful |-> 0, failed |-> 0, skipped |-> 0]
  /\ ckptFile = [status |-> "missing", data |-> NewMigrationState]
  /\ saveBuf = NewMigrationState
  /\ lastSave = "none"
  /\ targetLog = [k \in Schemas |-> <<>>]
  /\ cancelled = FALSE
  /\ faults = 0

RunIdle ==
  /\ dryRun = FALSE
  /\ pc = "fetch"
  /\ outcome = "none"
  /\ validationErrors = FALSE
  /\ RunRestIdle

\* fetchSchemasParallel lines 770-798, fetchVersionsParallel lines 831-887:
\* the channels are made, the workers started, the jobs sent and the jobs
\* channel closed.
FetchInit ==
  /\ RunIdle
  /\ NamingIdle
  /\ SideIdle
  /\ fKind \in {"schemas", "versions"}
  /\ \E n \in 1..MaxItems :
       /\ fItems = [i \in 1..n |-> i]
       /\ fFail \in SUBSET (1..n)
       /\ jobs = [i \in 1..n |-> i]
  /\ worker = [w \in 1..Workers |-> [pc |-> "range", job |-> 0]]
  /\ results = <<>>
  /\ errors = <<>>
  /\ closed = 0
  /\ collected = <<>>
  /\ iter = 0
  /\ fRet = "running"

\* `for x := range jobs`: the worker takes the next job, or leaves the
\* loop (wg.Done) when the closed channel is empty.
WorkerTake(w) ==
  /\ worker[w].pc = "range"
  /\ IF jobs = <<>>
       THEN /\ worker' = [worker EXCEPT ![w] = [pc |-> "exit", job |-> 0]]
            /\ jobs' = jobs
       ELSE /\ worker' = [worker EXCEPT ![w] = [pc |-> "fetch", job |-> Head(jobs)]]
            /\ jobs' = Tail(jobs)
  /\ UNCHANGED <<fKind, fItems, fFail, results, errors, closed, collected,
                 iter, fRet, runVars, nameVars, sideVars>>

\* The body of the worker loop: GetSchema or GetSchemaVersion; on error the
\* worker sends it to errors and returns, else it sends the item to results.
WorkerFetch(w) ==
  /\ worker[w].pc = "fetch"
  /\ IF worker[w].job \in fFail
       THEN /\ errors' = Append(errors, worker[w].job)
            /\ worker' = [worker EXCEPT ![w] = [pc |-> "exit", job |-> 0]]
            /\ results' = results
       ELSE /\ results' = Append(results, worker[w].job)
            /\ worker' = [worker EXCEPT ![w] = [pc |-> "range", job |-> 0]]
            /\ errors' = errors
  /\ UNCHANGED <<fKind, fItems, fFail, jobs, closed, collected, iter, fRet,
                 runVars, nameVars, sideVars>>

\* The closer goroutine: wg.Wait(), close(results), close(errors).
Close ==
  /\ fKind # "none"
  /\ closed < 2
  /\ \A w \in DOMAIN worker : worker[w].pc = "exit"
  /\ closed' = closed + 1
  /\ UNCHANGED <<fKind, fItems, fFail, jobs, worker, results, errors,
                 collected, iter, fRet, runVars, nameVars, sideVars>>

\* One round of the collecting loop, the select takes the errors case: a
\* buffered error makes the function return it; a closed and empty channel
\* yields nil and the round is over.
CollectError ==
  /\ fRet = "running"
  /\ iter < Len(fItems)
  /\ IF errors # <<>>
       THEN /\ fRet' = "error"
            /\ errors' = Tail(errors)
            /\ collected' = <<>>
            /\ iter' = iter
       ELSE /\ closed = 2
            /\ iter' = iter + 1
            /\ UNCHANGED <<fRet, errors, collected>>
  /\ UNCHANGED <<fKind, fItems, fFail, jobs, worker, results, closed, runVars, nameVars, sideVars>>

\* One round of the collecting loop, the select takes the results case: a
\* buffered item is appended; a closed and empty channel yields the zero
\* value, which is appended as well.
CollectResult ==
  /\ fRet = "running"
  /\ iter < Len(fItems)
  /\ IF results # <<>>
       THEN /\ collected' = Append(collected, Head(results))
            /\ results' = Tail(results)
       ELSE /\ closed >= 1
            /\ collected' = Append(collected, 0)
            /\ results' = results
  /\ iter' = iter + 1
  /\ UNCHANGED <<fKind, fItems, fFail, jobs, worker, errors, closed, fRet,
                 runVars, nameVars, sideVars>>

\* The loop is over: fetchSchemasParallel returns the slice as it is;
\* getSchemaVersions sorts what fetchVersionsParallel returned (line 763).
FetchReturn ==
  /\ fRet = "running"
  /\ iter = Len(fItems)
  /\ fKind # "none"
  /\ fRet' = "ok"
  /\ collected' = IF fKind = "versions" THEN sortVersions(collected)
                  ELSE collected
  /\ UNCHANGED <<fKind, fItems, fFail, jobs, worker, results, errors, closed,
                 iter, runVars, nameVars, sideVars>>

FetchNext ==
  \/ \E w \in 1..Workers : WorkerTake(w)
  \/ \E w \in 1..Workers : WorkerFetch(w)
  \/ Close
  \/ CollectError
  \/ CollectResult
  \/ FetchReturn

FetchSpec == FetchInit /\ [][FetchNext]_vars

(***************************************************************************)
(* Naming: Run steps 3 to 4 (MapAll, reconcile, collision resolution,      *)
(* validation) and the registration of the level schemas.  Names are       *)
(* sequences of one-character strings.                                     *)
(***************************************************************************)
Digits == <<"0", "1", "2", "3", "4", "5", "6", "7", "8", "9">>

\* The characters from '0' on, in code point order: string(rune('0'+i)).
FromZero == Digits \o <<":", ";", "<", "=", ">", "?", "@", "A", "B", "C", "D">>

runeFromZero(i) == <<FromZero[i + 1]>>

\* k in decimal notation.
RECURSIVE Decimal(_)
Decimal(k) ==
  IF k < 10 THEN <<Digits[k + 1]>>
  ELSE Decimal(k \div 10) \o <<Digits[(k % 10) + 1]>>

\* The letters and digits the modelled names use, of [a-zA-Z0-9].
Alnum == Range(Digits) \cup {"a", "b", "c", "f", "o", "r", "s", "x", "A", "B", "C", "D"}

\* validateSubjectName
validateSubjectName(subject) ==
  /\ subject # <<>>
  /\ Len(subject) <= 255
  /\ \A i \in DOMAIN subject : subject[i] \in Alnum \cup {".", "_", "-"}
  /\ subject[1] # "_"

\* validateContextName
validateContextName(context) ==
  \/ context = <<>>
  \/ /\ context[1] = "."
     /\ Len(context) > 1
     /\ \A i \in 2..Len(context) : context[i] \in Alnum \cup {"_", "-"}

\* ValidateMapping: the number of errors of one mapping.
ValidateMapping(m) ==
  (IF validateSubjectName(m.subject) THEN 0 ELSE 1)
    + (IF m.context # <<>> /\ ~validateContextName(m.context) THEN 1 ELSE 0)

\* The full subject DetectCollisions, ResolveCollisions and ValidateAll
\* group by.
fullTarget(m) ==
  IF m.context = <<>> THEN m.subject ELSE m.context \o <<":">> \o m.subject

targetGroup(ms, t) == SelectSeq(ms, LAMBDA m : fullTarget(m) = t)

\* DetectCollisions: the full subjects more than one mapping has.
DetectCollisions(ms) ==
  {t \in {fullTarget(ms[i]) : i \in DOMAIN ms} : Len(targetGroup(ms, t)) > 1}

\* ValidateAll: the number of errors.
ValidateAll(ms) ==
  SumOver([i \in DOMAIN ms |-> ValidateMapping(ms[i])], DOMAIN ms)
    + Cardinality(DetectCollisions(ms))

\* applyResolutionStrategy, case prefer-shorter: the first mapping of the
\* shortest source name.
RECURSIVE shortestOf(_, _)
shortestOf(shortest, rest) ==
  IF rest = <<>> THEN shortest
  ELSE IF Len(Head(rest).key[2]) < Len(shortest.key[2])
    THEN shortestOf(Head(rest), Tail(rest))
  ELSE shortestOf(shortest, Tail(rest))

applyResolutionStrategy(colliding, strategy) ==
  CASE strategy = "suffix" ->
         [i \in DOMAIN colliding |->
            IF i > 1
              THEN [colliding[i] EXCEPT
                      !.subject = @ \o <<"-">> \o runeFromZero(i - 1)]
              ELSE colliding[i]]
    [] strategy = "registry-prefix" ->
         [i \in DOMAIN colliding |->
            [colliding[i] EXCEPT
               !.subject = colliding[i].key[1] \o <<"-">> \o @]]
    [] strategy = "prefer-shorter" -> <<shortestOf(colliding[1], colliding)>>
    [] strategy = "skip" -> <<colliding[1]>>
    [] OTHER -> colliding

\* ResolveCollisions: the groups of targetMap are visited in the order
\* `order` (a map iteration) and their resolution is appended.
RECURSIVE resolveGroups(_, _, _)
resolveGroups(ms, strategy, order) ==
  IF order = <<>> THEN <<>>
  ELSE LET g == targetGroup(ms, Head(order))
       IN (IF Len(g) = 1 THEN g ELSE applyResolutionStrategy(g, strategy))
            \o resolveGroups(ms, strategy, Tail(order))

ResolveCollisions(ms, strategy, order) ==
  IF strategy = "" \/ strategy = "fail" THEN ms
  ELSE resolveGroups(ms, strategy, order)

\* Run lines 143-164 and 176-187: the level mapping of key takes the target
\* fields of mappingLookup[key].  The mappings are shared by pointer, so the
\* lookup entry of a key ResolveCollisions dropped is the mapper's mapping.
lookup(ms, fallback, key) ==
  IF \E i \in DOMAIN ms : ms[i].key = key
    THEN ms[CHOOSE i \in DOMAIN ms : ms[i].key = key]
    ELSE fallback[CHOOSE i \in DOMAIN fallback : fallback[i].key = key]

(***************************************************************************)
(* Inputs of the naming steps.                                             *)
(***************************************************************************)
Mapping(key, subject, context) ==
  [key |-> key, subject |-> subject, context |-> context, status |-> "ready"]

SmallKeys ==
  << <<<<"r", "1">>, <<"a", "b">>>>, <<<<"r", "1">>, <<"a">>>>,
     <<<<"r", "2">>, <<"a">>>> >>

SmallSubjects == {<<"f", "o", "o">>, <<"f", "o", "o", "-", "1">>, <<"_", "x">>}

Contexts == {<<>>, <<".", "c">>, <<"c">>}

\* Three schemas with any of the subjects, in one context.
SmallInputs ==
  {[i \in 1..3 |-> Mapping(SmallKeys[i], sub[i], c)] :
     sub \in [1..3 -> SmallSubjects], c \in Contexts}

\* n schemas s1 .. sn of one registry that all map to the subject foo.
GroupInputs ==
  {[i \in 1..n |-> Mapping(<<<<"r", "1">>, <<"s">> \o Decimal(i)>>,
                           <<"f", "o", "o">>, <<>>)] : n \in 4..MaxGroup}

\* Two schemas named by the custom mapping file (MapSchema lines 90-112
\* take subject and context from it as they are): one is given the subject
\* foo in the context .c, the other the subject ".c:foo" and no context.
CustomInputs ==
  LET named == <<[subject |-> <<"f", "o", "o">>, context |-> <<".", "c">>],
                 [subject |-> <<".", "c", ":", "f", "o", "o">>, context |-> <<>>]>>
  IN {[i \in 1..2 |-> Mapping(SmallKeys[i], named[p[i]].subject,
                              named[p[i]].context)] : p \in Perms({1, 2})}

NamingInputs == SmallInputs \cup GroupInputs \cup CustomInputs

\* The schema keys of all the inputs.
NamingKeys ==
  UNION {{input[i].key : i \in DOMAIN input} : input \in NamingInputs}

Strategies == {"fail", "suffix", "registry-prefix", "prefer-shorter", "skip"}

NamingInit ==
  /\ RunRestIdle
  /\ FetchIdle
  /\ SideIdle
  /\ dryRun \in BOOLEAN
  /\ pc = "map"
  /\ outcome = "none"
  /\ validationErrors = FALSE
  /\ collisionResolution \in Strategies
  /\ mapped = <<>>
  /\ mappings = <<>>
  /\ levelSchemas = <<>>
  /\ registered = {}

\* Run lines 134-164: MapAll and the first reconciliation of the levels.
MapAll ==
  /\ pc = "map"
  /\ \E input \in NamingInputs :
       /\ mapped' = input
       /\ mappings' = input
       /\ levelSchemas' = [key \in {input[i].key : i \in DOMAIN input} |->
                             lookup(input, input, key)]
  /\ pc' = "resolve"
  /\ UNCHANGED <<dryRun, outcome, validationErrors, collisionResolution,
                 registered, runRest, fetchVars, sideVars>>

\* Run lines 166-189 (cfg.Normalization.CollisionCheck is on).
AutoResolve ==
  /\ pc = "resolve"
  /\ IF collisionResolution \notin {"", "fail"} /\ DetectCollisions(mappings) # {}
       THEN \E order \in Perms({fullTarget(mappings[i]) : i \in DOMAIN mappings}) :
              LET resolved == ResolveCollisions(mappings, collisionResolution, order)
              IN /\ mappings' = resolved
                 /\ levelSchemas' = [key \in DOMAIN levelSchemas |->
                      LET c == lookup(resolved, mapped, key)
                      IN [levelSchemas[key] EXCEPT !.subject = c.subject,
                                                   !.context = c.context]]
       ELSE UNCHANGED <<mappings, levelSchemas>>
  /\ pc' = "validate"
  /\ UNCHANGED <<dryRun, outcome, validationErrors, collisionResolution, mapped,
                 registered, runRest, fetchVars, sideVars>>

\* A validation step whose errors are only printed.
ValidateWarnOnly ==
  /\ pc = "validate"
  /\ validationErrors' = (ValidateAll(mappings) > 0)
  /\ pc' = "branch"
  /\ outcome' = outcome
  /\ UNCHANGED <<dryRun, nameVars, runRest, fetchVars, sideVars>>

\* Run lines 191-203.
Validate ==
  /\ pc = "validate"
  /\ validationErrors' = (ValidateAll(mappings) > 0)
  /\ IF ValidateAll(mappings) > 0 /\ ~dryRun
       THEN Fail("validation_error")
       ELSE /\ pc' = "branch"
            /\ outcome' = outcome
  /\ UNCHANGED <<dryRun, nameVars, runRest, fetchVars, sideVars>>

\* Run lines 222-228.
NamingDryRun ==
  /\ pc = "branch"
  /\ dryRun
  /\ pc' = "done"
  /\ outcome' = "report"
  /\ UNCHANGED <<dryRun, validationErrors, nameVars, runRest, fetchVars, sideVars>>

\* migrateLevel and migrateSchema for one schema of the level, without
\* failure: the subject of its level mapping is registered.
RegisterLevelSchema(key) ==
  /\ pc = "branch"
  /\ ~dryRun
  /\ key \in DOMAIN levelSchemas
  /\ levelSchemas[key].status # "error"
  /\ \A r \in registered : r.key # key
  /\ registered' = registered \cup
       {[key |-> key, subject |-> levelSchemas[key].subject,
         context |-> levelSchemas[key].context]}
  /\ UNCHANGED <<dryRun, pc, outcome, validationErrors, collisionResolution,
                 mapped, mappings, levelSchemas, runRest, fetchVars, sideVars>>

\* Run lines 271-279.
NamingFinish ==
  /\ pc = "branch"
  /\ ~dryRun
  /\ \A key \in DOMAIN levelSchemas :
       levelSchemas[key].status = "error" \/ \E r \in registered : r.key = key
  /\ pc' = "done"
  /\ outcome' = "result"
  /\ UNCHANGED <<dryRun, validationErrors, nameVars, runRest, fetchVars, sideVars>>

NamingNext ==
  \/ MapAll
  \/ AutoResolve
  \/ Validate
  \/ NamingDryRun
  \/ \E key \in NamingKeys : RegisterLevelSchema(key)
  \/ NamingFinish

NamingSpec == NamingInit /\ [][NamingNext]_vars

(***************************************************************************)
(* The rate limiters.  The extractor and the loader each own a             *)
(* rate.Limiter of burst 1; every operation calls rateLimiter.Wait(ctx)    *)
(* and returns its error, or goes on to send its request.  The callers of  *)
(* the source side are the workers of a fan-out (a request per job), those *)
(* of the target side the pool tasks in RegisterSchema (a request per      *)
(* version).                                                               *)
(***************************************************************************)
Sides == {"source", "target"}

LimCallers == 1..(2 * Workers)

\* A caller with n requests to make: granted counts the Wait calls that
\* returned nil, sent the requests handed to the client.
NewOp(side, n) ==
  [side |-> side, pc |-> "wait", left |-> n, granted |-> 0, sent |-> 0,
   ret |-> "none"]

\* The run is not modelled: its variables stay at their initial value.
Detached(p) ==
  /\ dryRun = FALSE
  /\ pc = p
  /\ outcome = "none"
  /\ validationErrors = FALSE
  /\ RunRestIdle

LimiterInit ==
  /\ Detached("limiter")
  /\ FetchIdle
  /\ NamingIdle
  /\ RefIdle
  /\ NamerIdle
  /\ PureIdle
  /\ bucket = [side \in Sides |-> 1]
  /\ \E n \in 1..MaxOps :
       op = [c \in LimCallers |->
               NewOp(IF c <= Workers THEN "source" ELSE "target", n)]
  /\ ctxDone = FALSE

\* rateLimiter.Wait(ctx) returns nil: ctx is not done and the bucket of the
\* caller's side holds a token, which is taken.
WaitToken(c) ==
  /\ op[c].pc = "wait"
  /\ ~ctxDone
  /\ bucket[op[c].side] > 0
  /\ bucket' = [bucket EXCEPT ![op[c].side] = @ - 1]
  /\ op' = [op EXCEPT ![c].pc = "send", ![c].granted = @ + 1]
  /\ UNCHANGED <<ctxDone, runVars, fetchVars, nameVars, refVars, llmVars, pureVars>>

\* An operation that goes on to its request when Wait returned an error.
WaitErrorIgnored(c) ==
  /\ op[c].pc = "wait"
  /\ ctxDone
  /\ op' = [op EXCEPT ![c].pc = "send"]
  /\ UNCHANGED <<bucket, ctxDone, runVars, fetchVars, nameVars, refVars, llmVars, pureVars>>

\* rateLimiter.Wait(ctx) returns the error of the cancelled ctx, and the
\* operation returns it (the fan-out worker sends it to errors and ends).
WaitFails(c) ==
  /\ op[c].pc = "wait"
  /\ ctxDone
  /\ op' = [op EXCEPT ![c].pc = "done", ![c].ret = "cancelled"]
  /\ UNCHANGED <<bucket, ctxDone, runVars, fetchVars, nameVars, refVars, llmVars, pureVars>>

\* Time passes: the limiter's bucket (burst 1) is full again.
Refill(side) ==
  /\ bucket[side] = 0
  /\ bucket' = [bucket EXCEPT ![side] = 1]
  /\ UNCHANGED <<op, ctxDone, runVars, fetchVars, nameVars, refVars, llmVars, pureVars>>

\* The request is sent (client.GetSchemaVersion, client.Do) and answered:
\* on an error the caller returns it, else it goes on to its next request
\* or returns nil.
SendRequest(c) ==
  /\ op[c].pc = "send"
  /\ \E ok \in BOOLEAN :
       op' = [op EXCEPT ![c] =
         IF ~ok THEN [@ EXCEPT !.sent = @ + 1, !.pc = "done", !.ret = "error"]
         ELSE IF @.left = 1
           THEN [@ EXCEPT !.sent = @ + 1, !.left = 0, !.pc = "done", !.ret = "ok"]
         ELSE [@ EXCEPT !.sent = @ + 1, !.left = @ - 1, !.pc = "wait"]]
  /\ UNCHANGED <<bucket, ctxDone, runVars, fetchVars, nameVars, refVars, llmVars, pureVars>>

\* The caller of the operations cancels ctx.
CancelCtx ==
  /\ op # <<>>
  /\ ~ctxDone
  /\ ctxDone' = TRUE
  /\ UNCHANGED <<bucket, op, runVars, fetchVars, nameVars, refVars, llmVars, pureVars>>

LimiterNext ==
  \/ \E c \in LimCallers : WaitToken(c)
  \/ \E c \in LimCallers : WaitFails(c)
  \/ \E side \in Sides : Refill(side)
  \/ \E c \in LimCallers : SendRequest(c)
  \/ CancelCtx

LimiterSpec == LimiterInit /\ [][LimiterNext]_vars

(***************************************************************************)
(* ConfluentLoader.buildReferences and its call in RegisterSchema.  A      *)
(* reference is a character sequence: a graph key "registry:name" (what    *)
(* topologicalSort puts in mapping.References) or another text.            *)
(***************************************************************************)
\* strings.SplitN(ref, ":", 2): the position of the first ':' (0: none).
firstColon(ref) ==
  IF \E i \in DOMAIN ref : ref[i] = ":"
    THEN CHOOSE i \in DOMAIN ref :
           ref[i] = ":" /\ \A j \in 1..(i - 1) : ref[j] # ":"
    ELSE 0

ValueSuffix == <<"-", "v", "a", "l", "u", "e">>

\* buildReferences, the body of the loop for one reference.
buildReference(ref, context) ==
  LET i == firstColon(ref)
      refCtx == IF i > 0 THEN <<".">> \o SubSeq(ref, 1, i - 1) ELSE context
      schemaName == IF i > 0 THEN SubSeq(ref, i + 1, Len(ref)) ELSE ref
      subject == schemaName \o ValueSuffix
  IN [name |-> schemaName,
      subject |-> IF refCtx # <<>> THEN refCtx \o <<":">> \o subject ELSE subject,
      version |-> 1]

\* buildReferences: it returns a nil error for every input.
buildReferences(rs, context) ==
  [state |-> "built", list |-> [i \in DOMAIN rs |-> buildReference(rs[i], context)]]

\* The references a mapping may carry.
RefTexts ==
  {<<"r", "1", ":", "a">>, <<"a">>, <<"r", "1", ":", "a", ":", "b">>, <<>>}

RefContexts == {<<>>, <<".", "r", "1">>, <<".", "c">>}

RefInit ==
  /\ Detached("register")
  /\ FetchIdle
  /\ NamingIdle
  /\ LimiterIdle
  /\ NamerIdle
  /\ PureIdle
  /\ referenceStrategy \in {"rewrite", "skip"}
  /\ refs \in UNION {[1..n -> RefTexts] : n \in 0..MaxMappingRefs}
  /\ refContext \in RefContexts
  /\ reqReferences = [state |-> "unset", list |-> <<>>]

\* RegisterSchema lines 307-320.
BuildRequestBody ==
  /\ reqReferences.state = "unset"
  /\ pc = "register"
  /\ reqReferences' =
       IF Len(refs) > 0 /\ referenceStrategy = "rewrite"
         THEN buildReferences(refs, refContext)
         ELSE [state |-> "omitted", list |-> <<>>]
  /\ UNCHANGED <<referenceStrategy, refs, refContext, runVars, fetchVars,
                 nameVars, limVars, llmVars, pureVars>>

RefNext == BuildRequestBody

RefSpec == RefInit /\ [][RefNext]_vars

(***************************************************************************)
(* The LLM namer: Namer.SuggestName as called by the mapper for one schema *)
(* after the other.                                                        *)
(***************************************************************************)
NamerInit ==
  /\ Detached("llm")
  /\ FetchIdle
  /\ NamingIdle
  /\ LimiterIdle
  /\ RefIdle
  /\ PureIdle
  /\ maxCost \in 0..MaxCostLimit
  /\ totalCost = 0
  /\ callCount = 0
  /\ cache \in {{}, {<<"r1", "a">>}}
  /\ providerCalls = 0
  /\ llmTokens = 0
  /\ suggestKey = <<>>
  /\ suggestRet = "none"

\* SuggestName lines 69-72: the cost gate.
costLimitReached == maxCost > 0 /\ totalCost >= maxCost

\* provider.Complete and what follows it in SuggestName: the wait for a token
\* of the provider's limiter fails (cancelled context), or a token is taken and
\* the request fails, or it answers at some cost; then the parse of the
\* response (an empty response is an error) and the cache.
Complete(k) ==
  /\ providerCalls < MaxCalls
  /\ providerCalls' = providerCalls + 1
  /\ \/ /\ suggestRet' = "call_error"
        /\ UNCHANGED <<llmTokens, totalCost, callCount, cache>>
     \/ /\ llmTokens' = llmTokens + 1
        /\ suggestRet' = "call_error"
        /\ UNCHANGED <<totalCost, callCount, cache>>
     \/ \E cost \in 0..MaxCallCost, parsed \in BOOLEAN :
          /\ llmTokens' = llmTokens + 1
          /\ callCount' = callCount + 1
          /\ totalCost' = totalCost + cost
          /\ cache' = IF parsed THEN cache \cup {k} ELSE cache
          /\ suggestRet' = IF parsed THEN "suggestion" ELSE "parse_error"

\* SuggestName with the cost gate ahead of the cache.
SuggestNameGateFirst(k) ==
  /\ pc = "llm"
  /\ suggestKey' = k
  /\ \/ /\ costLimitReached
        /\ suggestRet' = "limit_error"
        /\ UNCHANGED <<totalCost, callCount, cache, providerCalls, llmTokens>>
     \/ /\ ~costLimitReached
        /\ k \in cache
        /\ suggestRet' = "cached"
        /\ UNCHANGED <<totalCost, callCount, cache, providerCalls, llmTokens>>
     \/ /\ ~costLimitReached
        /\ k \notin cache
        /\ Complete(k)
  /\ UNCHANGED <<maxCost, runVars, fetchVars, nameVars, limVars, refVars, pureVars>>

\* SuggestName for the schema k: the cached suggestion, the cost gate, the
\* call of the provider.
SuggestName(k) ==
  /\ pc = "llm"
  /\ suggestKey' = k
  /\ \/ /\ k \in cache
        /\ suggestRet' = "cached"
        /\ UNCHANGED <<totalCost, callCount, cache, providerCalls, llmTokens>>
     \/ /\ k \notin cache
        /\ costLimitReached
        /\ suggestRet' = "limit_error"
        /\ UNCHANGED <<totalCost, callCount, cache, providerCalls, llmTokens>>
     \/ /\ k \notin cache
        /\ ~costLimitReached
        /\ Complete(k)
  /\ UNCHANGED <<maxCost, runVars, fetchVars, nameVars, limVars, refVars, pureVars>>

NamerNext == \E k \in Schemas : SuggestName(k)

NamerSpec == NamerInit /\ [][NamerNext]_vars

(***************************************************************************)
(* The checkpoint round trip: CheckpointManager.Save of a MigrationState   *)
(* followed by CheckpointManager.Load.  A Go string is a sequence of bytes *)
(* and need not be valid UTF-8: "a" stands for a byte that is a character, *)
(* "xFF" for a byte that is no valid UTF-8, "uFFFD" for the bytes of the   *)
(* replacement character U+FFFD.  A time.Time holds a wall-clock reading   *)
(* and, when it comes from time.Now, a monotonic reading (0: none).        *)
(***************************************************************************)
Bytes == {"a", "xFF", "uFFFD"}

GoStrings == UNION {[1..n -> Bytes] : n \in 0..MaxStrLen}

Times == [wall : 0..MaxWall, mono : 0..1]

CkKeys == {"r1:a"}

CompletedEntries == [versions : {1}, completedAt : Times]

FailedEntries == [error : GoStrings, attempts : {1}, lastAttempt : Times]

\* The values of a map[string]E field: nil, or a map of some keys.
GoMaps(E) ==
  {[isNil |-> TRUE, entries |-> <<>>]} \cup
  {[isNil |-> FALSE, entries |-> f] : f \in UNION {[K -> E] : K \in SUBSET CkKeys}}

MigrationStates ==
  [completedCount : 0..1,
   migrationOrder : {[isNil |-> TRUE, elems |-> <<>>],
                     [isNil |-> FALSE, elems |-> <<>>],
                     [isNil |-> FALSE, elems |-> <<"r1:a">>]},
   completedSchemas : GoMaps(CompletedEntries),
   failedSchemas : GoMaps(FailedEntries)]

\* encoding/json on a string: every byte that is no valid UTF-8 is written
\* as U+FFFD.
toValidUTF8(str) ==
  [i \in DOMAIN str |-> IF str[i] = "xFF" THEN "uFFFD" ELSE str[i]]

\* Time.MarshalJSON writes the wall-clock reading (RFC 3339, nanoseconds);
\* Time.UnmarshalJSON yields a time without monotonic reading.
MarshalTime(t) == t.wall

UnmarshalTime(w) == [wall |-> w, mono |-> 0]

\* json.MarshalIndent(state): a nil map or slice is written as null.
Marshal(st) ==
  [completed_count |-> st.completedCount,
   migration_order |-> [null |-> st.migrationOrder.isNil,
                        elems |-> st.migrationOrder.elems],
   completed_schemas |->
     [null |-> st.completedSchemas.isNil,
      members |-> [k \in DOMAIN st.completedSchemas.entries |->
         [versions |-> st.completedSchemas.entries[k].versions,
          completed_at |-> MarshalTime(st.completedSchemas.entries[k].completedAt)]]],
   failed_schemas |->
     [null |-> st.failedSchemas.isNil,
      members |-> [k \in DOMAIN st.failedSchemas.entries |->
         [error |-> toValidUTF8(st.failedSchemas.entries[k].error),
          attempts |-> st.failedSchemas.entries[k].attempts,
          last_attempt |-> MarshalTime(st.failedSchemas.entries[k].lastAttempt)]]]]

\* json.Unmarshal(data, &state) into a zero MigrationState: null leaves the
\* map or slice nil.
Unmarshal(doc) ==
  [completedCount |-> doc.completed_count,
   migrationOrder |-> [isNil |-> doc.migration_order.null,
                       elems |-> doc.migration_order.elems],
   completedSchemas |->
     [isNil |-> doc.completed_schemas.null,
      entries |-> [k \in DOMAIN doc.completed_schemas.members |->
         [versions |-> doc.completed_schemas.members[k].versions,
          completedAt |-> UnmarshalTime(doc.completed_schemas.members[k].completed_at)]]],
   failedSchemas |->
     [isNil |-> doc.failed_schemas.null,
      entries |-> [k \in DOMAIN doc.failed_schemas.members |->
         [error |-> doc.failed_schemas.members[k].error,
          attempts |-> doc.failed_schemas.members[k].attempts,
          lastAttempt |-> UnmarshalTime(doc.failed_schemas.members[k].last_attempt)]]]]

\* Load lines 39-45: a nil map becomes an empty map.
initMaps(st) ==
  [st EXCEPT !.completedSchemas.isNil = FALSE, !.failedSchemas.isNil = FALSE]

CkptInit ==
  /\ Detached("checkpoint")
  /\ FetchIdle
  /\ NamingIdle
  /\ LimiterIdle
  /\ RefIdle
  /\ NamerIdle
  /\ DetectIdle
  /\ StripIdle
  /\ WireIdle
  /\ memState \in MigrationStates
  /\ diskFile = [status |-> "missing"]
  /\ loadRet = [state |-> "unset", value |-> <<>>]
  /\ ckPc = "save"

\* CheckpointManager.Save: the document is written, or os.WriteFile fails
\* and the error is returned.
CkSave ==
  /\ ckPc = "save"
  /\ \/ diskFile' = [status |-> "ok", data |-> Marshal(memState)]
     \/ UNCHANGED diskFile
  /\ ckPc' = "load"
  /\ UNCHANGED <<memState, loadRet, runVars, fetchVars, nameVars, limVars,
                 refVars, llmVars, detVars, stripVars, wireVars>>

\* CheckpointManager.Load.
CkLoad ==
  /\ ckPc = "load"
  /\ loadRet' = IF diskFile.status = "ok"
                THEN [state |-> "ok", value |-> initMaps(Unmarshal(diskFile.data))]
                ELSE [state |-> "error", value |-> <<>>]
  /\ ckPc' = "done"
  /\ UNCHANGED <<memState, diskFile, runVars, fetchVars, nameVars, limVars,
                 refVars, llmVars, detVars, stripVars, wireVars>>

CkptNext == CkSave \/ CkLoad

CkptSpec == CkptInit /\ [][CkptNext]_vars

(***************************************************************************)
(* Key/value detection: Detector.Detect on a Detector built by New.  A     *)
(* name is a sequence of two parts, a stem and an ending; a pattern is     *)
(* anchored at the start or at the end of the name and may ignore case.    *)
(***************************************************************************)
\* strings.ToLower on the parts that occur.
fold(t) ==
  CASE t = "-KEY" -> "-key"
    [] t = "Event" -> "event"
    [] OTHER -> t

\* re.MatchString(name).
MatchString(re, name) ==
  LET t == IF re.anchor = "end" THEN name[Len(name)] ELSE name[1]
  IN IF re.ci THEN fold(t) = fold(re.text) ELSE t = re.text

\* Two of the built-in key patterns: (?i)[-_]key$ and Key$.
builtinKeyPatterns ==
  << [anchor |-> "end", ci |-> TRUE, text |-> "-key"],
     [anchor |-> "end", ci |-> FALSE, text |-> "Key"] >>

\* Two of the built-in value patterns: (?i)[-_]value$ and (?i)event$.
builtinValuePatterns ==
  << [anchor |-> "end", ci |-> TRUE, text |-> "-value"],
     [anchor |-> "end", ci |-> TRUE, text |-> "event"] >>

\* Patterns of the configuration: ^order and -KEY$.
startsWithOrder == [anchor |-> "start", ci |-> FALSE, text |-> "order"]

endsWithUpperKey == [anchor |-> "end", ci |-> FALSE, text |-> "-KEY"]

DetNames == {<<"order", "-key">>, <<"order", "-KEY">>, <<"user", "Event">>,
             <<"user", "v1">>}

\* Keys of the override file: a schema name, or registry "." name.
OverrideKeys == {<<"order", "-key">>, <<"r1", ".", "order", "-key">>,
                 <<"user", "Event">>}

\* loadOverrideFile lines 101-107: the role of an entry of the file.
overrideRole(text) == IF text = "key" THEN "key" ELSE "value"

\* compilePatterns.
compile(disableBuiltin, builtin, regex) ==
  (IF disableBuiltin THEN <<>> ELSE builtin) \o regex

\* The parsed schemas given to Detect: none, or a record name and fields.
ParsedSchemas ==
  { [isNil |-> TRUE, recordName |-> <<>>, fields |-> <<>>],
    [isNil |-> FALSE, recordName |-> <<>>, fields |-> <<"id", "name">>],
    [isNil |-> FALSE, recordName |-> <<>>,
     fields |-> <<"a", "b", "c", "d", "e", "f">>],
    [isNil |-> FALSE, recordName |-> <<"User", "Key">>, fields |-> <<"name">>] }

\* The field names that contain one of idFieldNames when lowered.
idLike(field) == field \in {"id"}

\* The index of the first pattern of res that matches name, 0 if none.
firstMatch(res, name) ==
  LET hits == {i \in DOMAIN res : MatchString(res[i], name)}
  IN IF hits = {} THEN 0 ELSE CHOOSE i \in hits : \A j \in hits : i <= j

detectByStructure(parsed) ==
  IF /\ Len(parsed.fields) > 0
     /\ Len(parsed.fields) <= 3
     /\ \E i \in DOMAIN parsed.fields : idLike(parsed.fields[i])
  THEN [role |-> "key", reason |-> "structure"]
  ELSE IF Len(parsed.fields) > 5
       THEN [role |-> "value", reason |-> "structure"]
       ELSE [role |-> "", reason |-> ""]

\* Detect with the structure of the schema consulted ahead of the patterns.
DetectStructureFirst(d, registryName, schemaName, parsed) ==
  LET fullName == <<registryName, ".">> \o schemaName
      byStructure == IF parsed.isNil THEN [role |-> "", reason |-> ""]
                     ELSE detectByStructure(parsed)
  IN IF schemaName \in DOMAIN d.overrides
     THEN [role |-> d.overrides[schemaName], reason |-> "override"]
     ELSE IF fullName \in DOMAIN d.overrides
     THEN [role |-> d.overrides[fullName], reason |-> "override"]
     ELSE IF byStructure.role # ""
     THEN byStructure
     ELSE IF firstMatch(d.keyPatterns, schemaName) # 0
     THEN [role |-> "key", reason |-> "pattern"]
     ELSE IF firstMatch(d.valuePatterns, schemaName) # 0
     THEN [role |-> "value", reason |-> "pattern"]
     ELSE [role |-> IF d.defaultRole = "key" THEN "key" ELSE "value",
           reason |-> "default"]

\* Detector.Detect.
Detect(d, registryName, schemaName, parsed) ==
  LET fullName == <<registryName, ".">> \o schemaName
      hasReg == registryName \in DOMAIN d.registryConfig
      regKey == IF hasReg THEN d.registryConfig[registryName].keyPatterns
                ELSE <<>>
      regValue == IF hasReg THEN d.registryConfig[registryName].valuePatterns
                  ELSE <<>>
      hasRecord == ~parsed.isNil /\ parsed.recordName # <<>>
      byStructure == IF parsed.isNil THEN [role |-> "", reason |-> ""]
                     ELSE detectByStructure(parsed)
  IN IF schemaName \in DOMAIN d.overrides
     THEN [role |-> d.overrides[schemaName], reason |-> "override"]
     ELSE IF fullName \in DOMAIN d.overrides
     THEN [role |-> d.overrides[fullName], reason |-> "override"]
     ELSE IF firstMatch(regKey, schemaName) # 0
     THEN [role |-> "key", reason |-> "registry"]
     ELSE IF firstMatch(regValue, schemaName) # 0
     THEN [role |-> "value", reason |-> "registry"]
     ELSE IF firstMatch(d.keyPatterns, schemaName) # 0
     THEN [role |-> "key", reason |-> "pattern"]
     ELSE IF firstMatch(d.valuePatterns, schemaName) # 0
     THEN [role |-> "value", reason |-> "pattern"]
     ELSE IF hasRecord /\ firstMatch(d.keyPatterns, parsed.recordName) # 0
     THEN [role |-> "key", reason |-> "record"]
     ELSE IF hasRecord /\ firstMatch(d.valuePatterns, parsed.recordName) # 0
     THEN [role |-> "value", reason |-> "record"]
     ELSE IF byStructure.role # ""
     THEN byStructure
     ELSE [role |-> IF d.defaultRole = "key" THEN "key" ELSE "value",
           reason |-> "default"]

\* keyvalue.New on a configuration and an override file.
Detectors ==
  { [overrides |-> [k \in DOMAIN file |-> overrideRole(file[k])],
     registryConfig |-> reg,
     keyPatterns |-> compile(disable, builtinKeyPatterns, keyRegex),
     valuePatterns |-> compile(disable, builtinValuePatterns, valueRegex),
     defaultRole |-> def] :
    file \in UNION {[K -> {"key", "value"}] : K \in SUBSET OverrideKeys},
    reg \in {<<>>,
             [r \in {"r1"} |-> [keyPatterns |-> <<>>,
                                valuePatterns |-> <<startsWithOrder>>]]},
    disable \in BOOLEAN,
    keyRegex \in {<<>>, <<endsWithUpperKey>>},
    valueRegex \in {<<>>, <<startsWithOrder>>},
    def \in {"", "key"} }

DetectInit ==
  /\ Detached("detect")
  /\ FetchIdle
  /\ NamingIdle
  /\ LimiterIdle
  /\ RefIdle
  /\ NamerIdle
  /\ CkptIdle
  /\ StripIdle
  /\ WireIdle
  /\ detector \in Detectors
  /\ detectIn \in [registryName : {"r1", "r2"}, schemaName : DetNames,
                    parsed : ParsedSchemas]
  /\ detectRet = [role |-> "unset", reason |-> "unset"]

CallDetect ==
  /\ pc = "detect"
  /\ detectRet.role = "unset"
  /\ detectRet' = Detect(detector, detectIn.registryName, detectIn.schemaName,
                         detectIn.parsed)
  /\ UNCHANGED <<detector, detectIn, runVars, fetchVars, nameVars, limVars,
                 refVars, llmVars, ckptVars, stripVars, wireVars>>

DetectNext == CallDetect

DetectSpec == DetectInit /\ [][DetectNext]_vars

(***************************************************************************)
(* StripKeySuffix and StripValueSuffix, applied to a name and again to the *)
(* result.  A name is a sequence of characters.                            *)
(***************************************************************************)
StripChars == {"a", "-", "_", "k", "e", "y", "K", "v"}

StripNames == UNION {[1..n -> StripChars] : n \in 0..MaxNameLen}

keySuffixes ==
  << <<"-", "k", "e", "y">>, <<"_", "k", "e", "y">>, <<"K", "e", "y">>,
     <<"-", "k">>, <<"_", "k">> >>

valueSuffixes ==
  << <<"-", "v", "a", "l", "u", "e">>, <<"_", "v", "a", "l", "u", "e">>,
     <<"V", "a", "l", "u", "e">>, <<"-", "v">>, <<"_", "v">> >>

\* strings.HasSuffix
HasSuffix(name, suffix) ==
  /\ Len(suffix) <= Len(name)
  /\ SubSeq(name, Len(name) - Len(suffix) + 1, Len(name)) = suffix

\* strings.TrimSuffix of a suffix the name has
TrimSuffix(name, suffix) == SubSeq(name, 1, Len(name) - Len(suffix))

\* The loop of StripKeySuffix and StripValueSuffix: the first suffix of the
\* list that the name ends with is removed.
stripFirst(name, suffixes) ==
  LET hits == {i \in DOMAIN suffixes : HasSuffix(name, suffixes[i])}
  IN IF hits = {} THEN name
     ELSE TrimSuffix(name, suffixes[CHOOSE i \in hits : \A j \in hits : i <= j])

StripKeySuffix(name) == stripFirst(name, keySuffixes)

StripValueSuffix(name) == stripFirst(name, valueSuffixes)

StripInit ==
  /\ Detached("strip")
  /\ FetchIdle
  /\ NamingIdle
  /\ LimiterIdle
  /\ RefIdle
  /\ NamerIdle
  /\ CkptIdle
  /\ DetectIdle
  /\ WireIdle
  /\ stripIn \in [fn : {"key", "value"}, name : StripNames]
  /\ stripOut = <<>>

\* One application, to the name or to the result of the application before.
ApplyStrip ==
  /\ pc = "strip"
  /\ Len(stripOut) < 2
  /\ LET x == IF stripOut = <<>> THEN stripIn.name ELSE stripOut[Len(stripOut)]
     IN stripOut' = Append(stripOut, IF stripIn.fn = "key" THEN StripKeySuffix(x)
                                     ELSE StripValueSuffix(x))
  /\ UNCHANGED <<stripIn, runVars, fetchVars, nameVars, limVars, refVars,
                 llmVars, ckptVars, detVars, wireVars>>

StripNext == ApplyStrip

StripSpec == StripInit /\ [][StripNext]_vars

(***************************************************************************)
(* A schema S that references a schema T: T is mapped by MapSchema and     *)
(* registered, and S is registered with the references buildReferences     *)
(* makes of mapping.References.  Names are character sequences.            *)
(***************************************************************************)
WireRegistries == {<<"r", "1">>, <<"r", "2">>}

WireNames == {<<"a">>, <<"a", "-", "k">>, <<"a", "/", "b">>, <<"a", ".", "b">>}

\* The context mapping file of the "custom" context mapping.
contextMappings == [r \in {<<"r", "1">>} |-> <<"c">>]

\* Normalizer.Normalize under the default configuration, on lower-case
\* names: invalid characters and dots become "-".
Normalize(name) ==
  [i \in DOMAIN name |-> IF name[i] \in {"/", ":", "."} THEN "-" ELSE name[i]]

\* keyvalue.GetSuffix
GetSuffix(role) ==
  IF role = "key" THEN <<"-", "k", "e", "y">> ELSE ValueSuffix

\* NomenclatureMapper.topicNameStrategy
topicNameStrategy(name, role) ==
  StripValueSuffix(StripKeySuffix(Normalize(name))) \o GetSuffix(role)

\* NomenclatureMapper.generateContext
generateContext(mapping, registryName) ==
  CASE mapping = "flat" -> <<>>
    [] mapping = "custom" /\ registryName \in DOMAIN contextMappings ->
         <<".">> \o contextMappings[registryName]
    [] OTHER -> <<".">> \o registryName

\* RegisterSchema lines 302-306: the subject the request is sent for.
wireSubjectOf(m) ==
  IF m.context # <<>> THEN m.context \o <<":">> \o m.subject ELSE m.subject

\* The key of a node of the dependency graph, as topologicalSort puts it
\* in mapping.References.
graphKey(registryName, name) == registryName \o <<":">> \o name

WireInit ==
  /\ Detached("register")
  /\ FetchIdle
  /\ NamingIdle
  /\ LimiterIdle
  /\ NamerIdle
  /\ CkptIdle
  /\ DetectIdle
  /\ StripIdle
  /\ referenceStrategy = "rewrite"
  /\ contextMapping \in {"registry", "flat", "custom"}
  /\ \E reg \in WireRegistries, name \in WireNames, role \in {"key", "value"} :
       /\ refTarget = [registryName |-> reg, name |-> name, role |-> role,
                       mapped |-> FALSE, subject |-> <<>>, context |-> <<>>]
       /\ refs = <<graphKey(reg, name)>>
  /\ \E sreg \in WireRegistries : refContext = generateContext(contextMapping, sreg)
  /\ reqReferences = [state |-> "unset", list |-> <<>>]
  /\ targetWire = [sent |-> FALSE, subject |-> <<>>]

\* MapSchema lines 114-135 for the referenced schema.
MapTarget ==
  /\ pc = "register"
  /\ refTarget # <<>>
  /\ ~refTarget.mapped
  /\ refTarget' = [refTarget EXCEPT
       !.mapped = TRUE,
       !.context = generateContext(contextMapping, refTarget.registryName),
       !.subject = topicNameStrategy(refTarget.name, refTarget.role)]
  /\ UNCHANGED <<contextMapping, targetWire, runVars, fetchVars, nameVars,
                 limVars, refVars, llmVars, ckptVars, detVars, stripVars>>

\* RegisterSchema for the referenced schema.
RegisterTarget ==
  /\ pc = "register"
  /\ refTarget # <<>>
  /\ refTarget.mapped
  /\ ~targetWire.sent
  /\ targetWire' = [sent |-> TRUE, subject |-> wireSubjectOf(refTarget)]
  /\ UNCHANGED <<contextMapping, refTarget, runVars, fetchVars, nameVars,
                 limVars, refVars, llmVars, ckptVars, detVars, stripVars>>

WireNext == MapTarget \/ RegisterTarget \/ BuildRequestBody

WireSpec == WireInit /\ [][WireNext]_vars

(***************************************************************************)
(* Properties.                                                             *)
(***************************************************************************)
Max(S) == CHOOSE x \in S : \A y \in S : y <= x

\* The references of s that Build resolved.
resolvedRefs(s) == {t \in Schemas : edges[s][t] > 0}

\* The dependency level of the specification: 0 for a schema without
\* resolved references, else one more than the highest level among them.
RECURSIVE depLevel(_)
depLevel(s) ==
  IF resolvedRefs(s) = {} THEN 0
  ELSE 1 + Max({depLevel(t) : t \in resolvedRefs(s)})

\* The schemas GetLevels placed in some level, and the level of each.
levelled == UNION {levels[i] : i \in DOMAIN levels}

levelOf(s) == (CHOOSE i \in DOMAIN levels : s \in levels[i]) - 1

built == pc # "plan" /\ outcome \notin {"extract_error", "parse_error", "cycle_error"}

\* C1: in a run that is not a dry run, a schema of a higher dependency
\* level is submitted to the pool only when every schema of a lower level
\* that was submitted has terminated.
C1_LevelBarrier ==
  [][\A s \in Schemas :
       (task[s].pc = "new" /\ task'[s].pc # "new") =>
         \A u \in Schemas :
           (depLevel(u) < depLevel(s) /\ task[u].pc # "new") => task[u].pc = "done"]_vars

\* C2: for every resolved reference S -> T of an acyclic graph, T is placed
\* in a strictly lower level than S, and the schemas of level 0 have no
\* resolved reference.
C2_ReferencesInLowerLevels ==
  built =>
    /\ \A s, t \in Schemas :
         edges[s][t] > 0 =>
           s \in levelled /\ t \in levelled /\ levelOf(t) < levelOf(s)
    /\ \A s \in levelled : levelOf(s) = 0 => resolvedRefs(s) = {}

\* C3: a schema receives a register request only if every schema it
\* references has completed, in this run or in the loaded checkpoint.
C3_ReferencesCompletedFirst ==
  \A s \in Schemas :
    targetLog[s] # <<>> =>
      \A t \in resolvedRefs(s) : state.completedSchemas[t].present

\* C4 as stated: over all the register requests of one schema, a later
\* request never carries a lower version number than an earlier one.
C4_AscendingOverAllRequests ==
  \A k \in Schemas : \A i, j \in DOMAIN targetLog[k] :
    i < j => targetLog[k][i].version <= targetLog[k][j].version

\* C4, amended: within one attempt of the pool's retry loop a later register
\* request of a schema never carries a lower version number than an earlier
\* one; a later attempt starts again at the first version.
C4_AscendingWithinAttempt ==
  \A k \in Schemas : \A i, j \in DOMAIN targetLog[k] :
    i < j =>
      /\ targetLog[k][i].attempt <= targetLog[k][j].attempt
      /\ targetLog[k][i].attempt = targetLog[k][j].attempt =>
           targetLog[k][i].version <= targetLog[k][j].version

C4_Witness ==
  \E k \in Schemas :
    /\ Len(targetLog[k]) = 2 * MaxVersions
    /\ targetLog[k][MaxVersions].attempt = 0
    /\ targetLog[k][MaxVersions + 1].attempt = 1
    /\ task[k].pc = "done" /\ task[k].err = "nil"

noTargetRequests == \A k \in Schemas : targetLog[k] = <<>>

\* C5 as stated: a dry run sends no request to the target and returns a
\* report, never an error, whatever the source schemas are.
C5_DryRunAlwaysReports ==
  dryRun => noTargetRequests /\ (pc = "done" => outcome = "report")

\* C5, amended: a dry run sends no request to the target, and it returns
\* a report, also when validation found errors, unless extraction failed
\* or the graph could not be built (unparsable definition, cycle).
C5_DryRunReportsUnlessPlanFails ==
  dryRun =>
    /\ noTargetRequests
    /\ (pc = "done"
          /\ outcome \notin {"extract_error", "parse_error", "cycle_error"}) =>
         outcome = "report"

C5_Witness ==
  dryRun /\ pc = "done" /\ outcome = "report" /\ validationErrors
    /\ \E s, t \in Schemas : edges[s][t] > 0

\* C6: a schema completed in the loaded checkpoint receives no register
\* request, and its completedSchemas entry is the loaded one, in memory and
\* in every checkpoint this run saved.
C6_CompletedNotRegisteredAgain ==
  \A k \in Schemas :
    loaded[k].present =>
      /\ targetLog[k] = <<>>
      /\ state.completedSchemas[k] = loaded[k]
      /\ (lastSave = "ok" /\ pc # "saving") =>
           ckptFile.status = "ok" /\ ckptFile.data.completedSchemas[k] = loaded[k]

C6_Witness ==
  /\ pc = "done" /\ outcome = "result" /\ lastSave = "ok"
  /\ \E k \in levelled :
       /\ loaded[k].present
       /\ \E j \in levelled \ {k} : state.completedSchemas[j].at = 1
  /\ result.skipped = 1

\* C7: once cancellation fired while a level executed, Run returns the
\* Cancelled error.
C7_CancelReturnsCancelled ==
  (cancelled /\ pc = "done") => outcome = "cancelled"

\* C8: a crash during a save leaves the complete old or the complete new
\* checkpoint on disk, never an empty file.
C8_CrashLeavesOldOrNew ==
  pc = "crashed" => ckptFile.status # "empty"

levelFinished == pc = "level" /\ levelIdx > 1

persisted ==
  /\ ckptFile.status = "ok"
  /\ \A k \in Schemas :
       state.completedSchemas[k].present =>
         ckptFile.data.completedSchemas[k] = state.completedSchemas[k]

C10_CountsAddUp ==
  (pc = "done" /\ outcome = "result") =>
    state.completedCount + state.failedCount + state.skippedCount
      = state.totalSchemas

\* C15: when the fetch of a schema (of a version) fails, the fan-out
\* returns an error, never a successful result.
C15_FetchFailureIsReturned ==
  fRet = "ok" => errors = <<>>

\* C16: when every fetch succeeds, the fan-out returns exactly one real
\* entry per requested item, whatever the interleaving.
C16_OneEntryPerItem ==
  (fRet = "ok" /\ fFail = {}) =>
    /\ Len(collected) = Len(fItems)
    /\ \A i \in DOMAIN fItems : \E j \in DOMAIN collected : collected[j] = fItems[i]

\* C17: the versions GetSchema returns are strictly ascending by
\* versionNumber, without duplicates.
C17_VersionsStrictlyAscending ==
  (fKind = "versions" /\ fRet = "ok") =>
    \A i, j \in DOMAIN collected : i < j => collected[i] < collected[j]

\* ExecuteWithProgress has returned to migrateLevel.
poolReturned ==
  pc \in {"save", "saving", "crashed"} \/ (pc = "level" /\ levelIdx > 1)
    \/ (pc = "done" /\ outcome = "result")

\* C18: the error slice has one slot per task; the slot of a task is written
\* when the task ends, it is nil exactly when the last call of the work
\* function returned nil, and otherwise holds that call's error or the
\* cancellation error; when the pool returns every slot is written.
C18_SlotHoldsOwnOutcome ==
  /\ \A k \in Schemas :
       /\ task[k].pc # "done" => task[k].slot = "unset"
       /\ task[k].pc = "done" =>
            /\ task[k].slot # "unset"
            /\ task[k].slot = "nil" <=> task[k].workErr = "nil"
            /\ task[k].slot # "nil" =>
                 task[k].slot \in {task[k].workErr, "cancelled"}
            /\ task[k].slot = "cancelled" => cancelled
  /\ poolReturned => \A k \in toMigrate : task[k].pc = "done"

C18_Witness ==
  /\ poolReturned
  /\ \E k1, k2, k3 \in toMigrate :
       /\ task[k1].slot = "nil" /\ task[k1].attempt = 1
       /\ task[k2].slot = "nil" /\ task[k2].attempt = 0
       /\ task[k3].slot = "cancelled"

\* C19: at every moment at most Workers tasks of the pool are running.
C19_AtMostWorkersRunning ==
  Cardinality(Active) <= Workers

C19_Witness ==
  /\ Cardinality({k \in Schemas : task[k].pc \in {"work", "reg"}}) = Workers
  /\ \E k \in toMigrate : task[k].pc = "new"

\* C20: the progress callback has been called once for every task that
\* ended and not at all for the others; when the pool returns it has been
\* called once per task.
C20_ProgressOncePerTask ==
  /\ \A k \in Schemas :
       task[k].progress = IF task[k].pc = "done" THEN 1 ELSE 0
  /\ poolReturned =>
       SumOver([k \in Schemas |-> task[k].progress], Schemas)
         = Cardinality(toMigrate)

C20_Witness ==
  /\ poolReturned
  /\ Cardinality(toMigrate) = 3
  /\ \E k1, k2 \in toMigrate :
       task[k1].slot = "nil" /\ task[k2].slot \notin {"nil", "unset"}

\* C21: a task gets the cancellation error only when the caller's context
\* was cancelled, whatever its siblings returned; and when the pool returns
\* without cancellation, the work function was called for every task.
C21_FailureDoesNotStopSiblings ==
  /\ \A k \in Schemas : task[k].err = "cancelled" => cancelled
  /\ (poolReturned /\ ~cancelled) => \A k \in toMigrate : task[k].calls >= 1

C21_Witness ==
  /\ poolReturned /\ ~cancelled
  /\ \E k1, k2 \in toMigrate :
       /\ task[k1].slot = "transient" /\ task[k1].calls = RetryAttempts + 1
       /\ task[k2].slot = "nil" /\ task[k2].calls = 1

\* C22: the work function is called at most RetryAttempts + 1 times for a
\* task, the task returns as soon as a call returned nil, and it reports an
\* error of the work function only when RetryAttempts + 1 calls have failed.
C22_BoundedRetries ==
  \A k \in Schemas :
    /\ task[k].calls <= RetryAttempts + 1
    /\ task[k].workErr = "nil" => task[k].pc \in {"ret", "done"}
    /\ (task[k].pc = "done" /\ task[k].slot \notin {"nil", "cancelled"}) =>
         task[k].calls = RetryAttempts + 1 /\ task[k].workErr # "nil"

C22_Witness ==
  /\ poolReturned
  /\ \E k1, k2 \in toMigrate :
       /\ task[k1].slot = "auth" /\ task[k1].calls = RetryAttempts + 1
       /\ task[k2].slot = "nil" /\ task[k2].calls = RetryAttempts + 1

\* A task that is not inside a call of the work function.
betweenCalls(t) == t.pc \in {"new", "loop", "sleep"}

RECURSIVE refClosure(_, _)
refClosure(R, n) ==
  IF n = 0 THEN R
  ELSE refClosure(R \cup UNION {resolvedRefs(t) : t \in R}, n - 1)

onCycle(s) == s \in refClosure(resolvedRefs(s), Cardinality(Schemas))

\* C25: when Build succeeds the graph has no cycle, and when it fails with
\* the cycle error the reported path holds at least 2 distinct schemas.
C25_AcyclicOrCyclePath ==
  /\ built => \A s \in Schemas : ~onCycle(s)
  /\ outcome = "cycle_error" => Cardinality(Range(cyclePath)) >= 2

\* C26: Run never returns the error of a definition that cannot be parsed.
C26_ParseFailureDoesNotFailRun ==
  outcome # "parse_error"

\* C29: in a run that is not a dry run, every register request carries a
\* target subject that validateSubjectName accepts.
C29_RegisteredSubjectsValid ==
  ~dryRun => \A r \in registered : validateSubjectName(r.subject)

recognised(ref) ==
  /\ ref # <<>>
  /\ firstColon(ref) \notin {1, Len(ref)}
  /\ Cardinality({i \in DOMAIN ref : ref[i] = ":"}) <= 1

schemaNameOf(ref) == SubSeq(ref, firstColon(ref) + 1, Len(ref))

\* C28: when references are rewritten, a reference to schema n becomes the
\* target reference (n, "n-value" in the referring mapping's target
\* context, or unqualified when that context is empty, version 1); when a
\* reference has an unrecognised form the registration fails.
C28_ReferencesRewritten ==
  (reqReferences.state \notin {"unset", "omitted"}) =>
    IF \A i \in DOMAIN refs : recognised(refs[i])
      THEN /\ reqReferences.state = "built"
           /\ Len(reqReferences.list) = Len(refs)
           /\ \A i \in DOMAIN refs :
                LET n == schemaNameOf(refs[i]) IN
                reqReferences.list[i] =
                  [name |-> n,
                   subject |-> IF refContext = <<>> THEN n \o ValueSuffix
                               ELSE refContext \o <<":">> \o n \o ValueSuffix,
                   version |-> 1]
      ELSE reqReferences.state = "error"

\* C30: with a positive maxCost, totalCost never exceeds maxCost.
C30_CostWithinLimit ==
  maxCost > 0 => totalCost <= maxCost

\* C31: a call of SuggestName for a schema the cache holds returns the cached
\* suggestion and leaves the provider uncalled, the limiter's tokens untaken
\* and callCount and totalCost as they were, whether or not the cost limit
\* has been reached.
C31_CacheHitIsFree ==
  [][suggestKey' \in cache =>
       /\ suggestRet' = "cached"
       /\ UNCHANGED <<providerCalls, llmTokens, callCount, totalCost>>]_vars

\* A cached suggestion was served although the cost limit had been reached.
C31_Witness ==
  /\ suggestRet = "cached"
  /\ suggestKey \in cache
  /\ costLimitReached
  /\ callCount > 0

\* Equality of two MigrationStates on what the checkpoint file holds: the
\* count, the migration order and the entries of the two maps, a time being
\* its wall-clock reading.
sameEntries(a, b, timeField) ==
  /\ DOMAIN a = DOMAIN b
  /\ \A k \in DOMAIN a :
       /\ a[k][timeField].wall = b[k][timeField].wall
       /\ [a[k] EXCEPT ![timeField] = 0] = [b[k] EXCEPT ![timeField] = 0]

serializedEqual(a, b) ==
  /\ a.completedCount = b.completedCount
  /\ a.migrationOrder.elems = b.migrationOrder.elems
  /\ sameEntries(a.completedSchemas.entries, b.completedSchemas.entries,
                 "completedAt")
  /\ sameEntries(a.failedSchemas.entries, b.failedSchemas.entries,
                 "lastAttempt")

\* C32: after a Save of s that succeeded, Load returns a state equal to s in
\* the count, the migration order and the completedSchemas and
\* failedSchemas entries.
C32_SaveLoadRoundTrip ==
  (ckPc = "done" /\ loadRet.state = "ok") =>
    serializedEqual(loadRet.value, memState)

\* The patterns that apply to a schema of the registry reg, by role.
patternsOf(d, reg, role) ==
  LET own == IF reg \in DOMAIN d.registryConfig
             THEN IF role = "key" THEN d.registryConfig[reg].keyPatterns
                  ELSE d.registryConfig[reg].valuePatterns
             ELSE <<>>
      all == IF role = "key" THEN d.keyPatterns ELSE d.valuePatterns
  IN own \o all

matchesPattern(d, reg, role, name) ==
  \E i \in DOMAIN patternsOf(d, reg, role) :
    MatchString(patternsOf(d, reg, role)[i], name)

\* The override of a schema, "" if it has none.
overrideOf(d, reg, name) ==
  IF name \in DOMAIN d.overrides THEN d.overrides[name]
  ELSE IF <<reg, ".">> \o name \in DOMAIN d.overrides
       THEN d.overrides[<<reg, ".">> \o name]
       ELSE ""

\* C33: Detect returns the role of the override of a name that has one,
\* whatever patterns the name matches; for a name without override that
\* matches a pattern it returns the role of a pattern the name matches,
\* whatever the structure of the schema suggests.
C33_DetectPriority ==
  detectRet.role # "unset" =>
    LET reg == detectIn.registryName
        name == detectIn.schemaName
        ovr == overrideOf(detector, reg, name)
    IN /\ ovr # "" => detectRet = [role |-> ovr, reason |-> "override"]
       /\ (/\ ovr = ""
           /\ \E role \in {"key", "value"} :
                matchesPattern(detector, reg, role, name))
          => /\ detectRet.reason \in {"registry", "pattern"}
             /\ matchesPattern(detector, reg, detectRet.role, name)

\* A pattern decided although the structure of the schema suggests the
\* other role.
C33_Witness ==
  /\ detectRet.reason = "pattern"
  /\ ~detectIn.parsed.isNil
  /\ detectByStructure(detectIn.parsed).role \notin {"", detectRet.role}

\* C34: stripping the result of a stripping changes nothing.
C34_StripIdempotent ==
  Len(stripOut) = 2 => stripOut[2] = stripOut[1]

\* The pool worker of k stands in migrateSchema lines 476-483, at the write
\* of state.CompletedSchemas or within state.CompletedCount++.
writesState(k) == task[k].pc \in {"mark", "inc"}

\* C35: no two pool workers write the MigrationState at the same time.
C35_SingleWriter ==
  \A j, k \in Schemas : (j # k /\ writesState(j)) => ~writesState(k)

\* The keys of the CompletedSchemas map of st.
completedKeys(st) == {k \in Schemas : st.completedSchemas[k].present}

\* C38: the state a Save writes has completedCount equal to the number of
\* entries of completedSchemas.
C38_CountMatchesEntries ==
  pc = "saving" =>
    saveBuf.completedCount = Cardinality(completedKeys(saveBuf))

\* C39: the state a Save writes has no key in both completedSchemas and
\* failedSchemas.
C39_CompletedNotFailed ==
  pc = "saving" => completedKeys(saveBuf) \cap saveBuf.failedSchemas = {}

\* C37: once the graph of an acyclic set of schemas is built, every schema
\* is in exactly one dependency level.
C37_EverySchemaInOneLevel ==
  built => \A k \in Schemas :
             Cardinality({i \in DOMAIN levels : k \in levels[i]}) = 1

\* C36: the subject of the reference sent with the referring schema is the
\* subject the referenced schema is registered under.
C36_ReferenceNamesRegisteredSubject ==
  (reqReferences.state = "built" /\ targetWire.sent) =>
    reqReferences.list[1].subject = targetWire.subject

\* C24: after a call of the work function returned an authorization error,
\* the work function is not called again for that schema.
C24_AuthErrorNotRetried ==
  [][\A k \in Schemas :
       task'[k].calls > task[k].calls => task[k].workErr # "auth"]_vars

resolutionDone == pc \in {"validate", "branch", "done"} /\ mapped # <<>>

\* The groups of schemas the mapper gave one full subject, in slice order.
collidingGroups ==
  {targetGroup(mapped, t) : t \in DetectCollisions(mapped)}

\* C11: in a run that is not a dry run, when validation of the mappings
\* reports an error (invalid subject, invalid context, or a collision left
\* after resolution), Run has returned the validation error and no schema
\* was registered.
C11_ValidationErrorAborts ==
  (pc \in {"branch", "done"} /\ mapped # <<>> /\ ~dryRun
     /\ ValidateAll(mappings) > 0) =>
    /\ pc = "done" /\ outcome = "validation_error"
    /\ registered = {}

C11_Witness ==
  /\ pc = "done" /\ outcome = "validation_error" /\ ~dryRun
  /\ collisionResolution = "suffix"
  /\ DetectCollisions(mappings) # {}
  /\ \A i \in DOMAIN mappings : ValidateMapping(mappings[i]) = 0

\* C12: after collision resolution with a strategy other than fail, no two
\* ready mappings have the same target context and subject.
C12_UniqueAfterResolution ==
  (resolutionDone /\ collisionResolution # "fail") =>
    \A i, j \in DOMAIN mappings :
      (i # j /\ mappings[i].status = "ready" /\ mappings[j].status = "ready") =>
        <<mappings[i].context, mappings[i].subject>>
          # <<mappings[j].context, mappings[j].subject>>

\* C13: under skip and prefer-shorter, every mapping of a colliding group
\* other than the one kept is never registered at the target.
C13_DroppedNeverRegistered ==
  (resolutionDone /\ collisionResolution \in {"skip", "prefer-shorter"}) =>
    \A g \in collidingGroups : \A i \in DOMAIN g :
      (\A j \in DOMAIN mappings : mappings[j].key # g[i].key) =>
        \A r \in registered : r.key # g[i].key

\* C14: under suffix, the first mapping of a colliding group keeps its
\* subject and the k-th following one has the subject with "-k" appended,
\* k in decimal.
C14_DecimalSuffix ==
  (resolutionDone /\ collisionResolution = "suffix") =>
    \A g \in collidingGroups : \A i \in DOMAIN g :
      lookup(mappings, mapped, g[i].key).subject =
        IF i = 1 THEN g[i].subject
        ELSE g[i].subject \o <<"-">> \o Decimal(i - 1)

====
